---- MODULE Spec2Model ----
(***************************************************************************)
(* Chartor-Market trading engine: the mode coordinator (api_server.py),    *)
(* the Unified Position Manager (core/position_manager.py), the pre-trade  *)
(* safety layer (core/safety_layer.py), the risk manager                   *)
(* (risk/risk_manager.py) and the order paths that tie them together.      *)
(*                                                                         *)
(* Every subsystem has its own next-state relation and specification over  *)
(* the one set of variables; a subsystem's actions leave the variables of  *)
(* the other subsystems unchanged.                                         *)
(***************************************************************************)
EXTENDS Integers, Sequences, FiniteSets, TLC

(***************************************************************************)
(* Bounds of the model.                                                    *)
(***************************************************************************)
\* Institutional worker threads that may be spawned in one run.
MaxWorkers == 2
\* Sentinel loop threads that may be spawned in one run.
MaxSentinelThreads == 2
\* Calendar days after the first one.
MaxDay == 1
\* Positions the risk manager may close in one run.
MaxRMTrades == 3

VARIABLES
    \* ---- mode coordinator, src/api_server.py ----
    sentinel_running,        \* api_server.py:98
    institutional_running,   \* api_server.py:2232
    active_trading_mode,     \* api_server.py:102  "NONE" stands for None
    inst_workers,            \* run_institutional threads: worker -> position
    sentinel_threads,        \* sentinel_loop threads: thread -> position
    coord_hist,              \* history: the last coordinator call and the stops
    last_cycle,              \* history: the last trading cycle a loop thread ran
    \* ---- position manager, src/core/position_manager.py ----
    pm_positions,            \* position_manager.py:76  symbol -> Position
    pm_order,                \* insertion order of the positions dict
    position_lock,           \* position_manager.py:77  "free" or the holder
    monitor_running,         \* position_manager.py:80
    mon_pc,                  \* where the monitor thread is in monitor_loop
    mon_todo,                \* positions the running iteration has yet to visit
    mon_price,               \* the price the monitor fetched last
    mon_to_close,            \* symbols_to_close, position_manager.py:412
    api_pc,                  \* where the calling thread is in open_position
    api_args,                \* the arguments of its pending open_position
    total_positions_opened,  \* position_manager.py:84
    total_positions_closed,  \* position_manager.py:85
    pm_last_close,           \* the trade record of the last close_position
    shut_pc,                 \* where the caller of shutdown() is in it
    shut_todo,               \* symbols, position_manager.py:498
    \* ---- safety layer, src/core/safety_layer.py ----
    sl_current_equity,       \* safety_layer.py:83
    sl_peak_equity,          \* safety_layer.py:82
    sl_daily_starting_equity,\* safety_layer.py:84
    sl_last_reset_date,      \* safety_layer.py:85
    sl_total_checks,         \* safety_layer.py:89
    sl_total_rejections,     \* safety_layer.py:90
    sl_last_check,           \* the last validate_trade call and its result
    sl_rejection_reasons,    \* safety_layer.py:92
    \* ---- order paths, src/api_server.py ----
    orders,                  \* the opening orders sent to client.place_order
    pm_realized_today,       \* history: PnL realized by close_position today
    sentinel_audit,          \* history: how the last Sentinel iteration that
                             \* reached sizing ended, and its market_log row
    sentinel_pending,        \* per Sentinel thread, the locals of an iteration
                             \* that has passed the existing-position check
    cycle_pc,                \* where the orchestrator is in run_cycle
    \* ---- execution engine, src/execution/execution_engine.py ----
    engine,                  \* the call of execute_market_order in progress
                             \* and the engine's statistics
    \* ---- orchestrator, src/trading_orchestrator.py ----
    scan,                    \* select_best_opportunity: asset_scores, the
                             \* symbol being scored and the asset returned
    \* ---- Sentinel loop, src/api_server.py ----
    rule_cycle,              \* the strategy step of the last iteration: its
                             \* inputs, its decision, whether it asked the advisor
    \* ---- risk manager, src/risk/risk_manager.py ----
    fallback,                \* the last call of get_fallback_decision
    sizing,                  \* the last call of calculate_position_size: its
                             \* arguments and how it ended
    \* ---- advisor client, src/core/llm_brain.py ----
    api_call_count,          \* llm_brain.py:22
    quota_exceeded,          \* quota_exceeded_until is set and not yet past
    brain_cached,            \* cache holds a result younger than CACHE_DURATION
    brain_pc,                \* where each caller is in get_trading_decision
    brain_sent,              \* history: requests sent to the advisor today
    \* ---- wall clock ----
    today,                   \* datetime.now().date(), as a day number
    \* ---- risk manager, src/risk/risk_manager.py ----
    rm_current_equity,       \* risk_manager.py:101
    rm_peak_equity,          \* risk_manager.py:100
    rm_daily_starting_equity,\* risk_manager.py:102
    rm_last_reset_date,      \* risk_manager.py:103
    rm_daily_pnl,            \* risk_manager.py:110
    rm_positions,            \* risk_manager.py:106  symbol -> position dict
    rm_closed,               \* len(position_history), risk_manager.py:107
    rm_last_op,              \* the last risk-manager call and its result
    rm_kill_latched          \* history: daily loss breached since the last reset

coordVars == <<sentinel_running, institutional_running, active_trading_mode,
               inst_workers, sentinel_threads>>
ghostVars == <<coord_hist, last_cycle>>
monVars == <<monitor_running, mon_pc>>
shutVars == <<shut_pc, shut_todo>>
brainVars == <<api_call_count, quota_exceeded, brain_cached, brain_pc,
               brain_sent>>
pmVars == <<pm_positions, pm_order, position_lock, mon_todo, mon_price,
            mon_to_close, api_pc, api_args, total_positions_opened,
            total_positions_closed, pm_last_close>>
safetyVars == <<sl_current_equity, sl_peak_equity, sl_daily_starting_equity,
                sl_last_reset_date, sl_total_checks, sl_total_rejections,
                sl_last_check, sl_rejection_reasons>>
tradeVars == <<orders, pm_realized_today, sentinel_audit>>
auxVars == <<scan, rule_cycle, sizing, fallback>>
pendVars == <<sentinel_pending, cycle_pc, engine, auxVars>>
rmVars == <<rm_current_equity, rm_peak_equity, rm_daily_starting_equity,
            rm_last_reset_date, rm_daily_pnl, rm_positions, rm_closed,
            rm_last_op, rm_kill_latched>>
\* What the coordinator never touches (it starts the position monitor).
coordRest == <<today, rmVars, pmVars, shutVars, safetyVars, tradeVars,
              brainVars, pendVars>>
vars == <<sentinel_running, institutional_running, active_trading_mode,
          inst_workers, sentinel_threads, coord_hist, last_cycle, pm_positions, pm_order,
          position_lock, monitor_running, mon_pc, mon_todo, mon_price,
          mon_to_close, api_pc, api_args, total_positions_opened,
          total_positions_closed, pm_last_close, shut_pc, shut_todo,
          sl_current_equity,
          sl_peak_equity, sl_daily_starting_equity, sl_last_reset_date,
          sl_total_checks, sl_total_rejections, sl_last_check,
          sl_rejection_reasons, orders,
          pm_realized_today, sentinel_audit, sentinel_pending, cycle_pc, engine, scan, rule_cycle, sizing, fallback,
          api_call_count,
          quota_exceeded,
          brain_cached, brain_pc, brain_sent, today,
          rm_current_equity, rm_peak_equity, rm_daily_starting_equity,
          rm_last_reset_date, rm_daily_pnl, rm_positions, rm_closed,
          rm_last_op, rm_kill_latched>>

Workers == 1..MaxWorkers
SentinelThreads == 1..MaxSentinelThreads

\* The next thread slot that has not been used yet (0 when all are used).
NextUnborn(f) ==
    IF \E i \in DOMAIN f : f[i] = "unborn"
    THEN CHOOSE i \in DOMAIN f :
            f[i] = "unborn" /\ \A j \in DOMAIN f : f[j] = "unborn" => i <= j
    ELSE 0

(***************************************************************************)
(* Mode coordinator                                                        *)
(***************************************************************************)
NoCall == [op |-> "none", repeated |-> FALSE, changed |-> FALSE,
           restart |-> FALSE, sent_stopped |-> FALSE, inst_stopped |-> FALSE]
NoCycle == [kind |-> "none", mode |-> "NONE", inst_stopped |-> FALSE]

CoordInit ==
    /\ coord_hist = NoCall
    /\ last_cycle = NoCycle
    /\ sentinel_running = FALSE
    /\ institutional_running = FALSE
    /\ active_trading_mode = "NONE"
    /\ inst_workers = [w \in Workers |-> "unborn"]
    /\ sentinel_threads = [t \in SentinelThreads |-> "unborn"]

\* start_sentinel(): under trading_mode_lock.  Raises when Institutional is
\* the active mode; otherwise, if the flag is clear, sets it, takes the mode,
\* starts the position monitor and spawns a sentinel_loop thread.
start_sentinel ==
    IF active_trading_mode = "INSTITUTIONAL"
    THEN UNCHANGED <<coordVars, monVars, coordRest>>
    ELSE IF ~sentinel_running
         THEN /\ NextUnborn(sentinel_threads) # 0
              /\ sentinel_running' = TRUE
              /\ active_trading_mode' = "SENTINEL"
              /\ monitor_running' = TRUE
              /\ mon_pc' = IF mon_pc = "none" THEN "idle" ELSE mon_pc
              /\ sentinel_threads' =
                    [sentinel_threads EXCEPT ![NextUnborn(sentinel_threads)] = "alive"]
              /\ UNCHANGED <<institutional_running, inst_workers, coordRest>>
         ELSE UNCHANGED <<coordVars, monVars, coordRest>>

\* stop_sentinel(): clears the flag; the mode is released only when it is
\* SENTINEL.
stop_sentinel ==
    /\ sentinel_running' = FALSE
    /\ active_trading_mode' =
          IF active_trading_mode = "SENTINEL" THEN "NONE" ELSE active_trading_mode
    /\ UNCHANGED <<institutional_running, inst_workers, sentinel_threads,
                   monVars, coordRest>>

\* start_institutional(): under trading_mode_lock.  Auto-stops Sentinel, returns
\* early when the running flag is already set, otherwise spawns a worker
\* thread and takes the mode.  The worker sets the running flag itself.
start_institutional ==
    LET autostop == active_trading_mode = "SENTINEL"
        sr == IF autostop THEN FALSE ELSE sentinel_running
        m1 == IF autostop THEN "NONE" ELSE active_trading_mode
    IN  IF institutional_running
        THEN /\ sentinel_running' = sr
             /\ active_trading_mode' = m1
             /\ UNCHANGED <<institutional_running, inst_workers,
                            sentinel_threads, monVars, coordRest>>
        ELSE /\ NextUnborn(inst_workers) # 0
             /\ sentinel_running' = sr
             /\ inst_workers' =
                   [inst_workers EXCEPT ![NextUnborn(inst_workers)] = "spawned"]
             /\ active_trading_mode' = "INSTITUTIONAL"
             /\ UNCHANGED <<institutional_running, sentinel_threads,
                            monVars, coordRest>>

\* stop_institutional(): returns early when the flag is clear; otherwise
\* clears the flag and the mode.
stop_institutional ==
    IF ~institutional_running
    THEN UNCHANGED <<coordVars, monVars, coordRest>>
    ELSE /\ institutional_running' = FALSE
         /\ active_trading_mode' = "NONE"
         /\ UNCHANGED <<sentinel_running, inst_workers, sentinel_threads,
                        monVars, coordRest>>

\* run_institutional(), first statement: the worker sets the flag, outside the
\* lock.
run_institutional_begin(w) ==
    /\ inst_workers[w] = "spawned"
    /\ institutional_running' = TRUE
    /\ inst_workers' = [inst_workers EXCEPT ![w] = "running"]
    /\ UNCHANGED <<sentinel_running, active_trading_mode, sentinel_threads,
                   monVars, coordRest>>

\* run_institutional(), finally clause: institutional_main() has returned or
\* raised (its input() prompt fails without a terminal); the worker clears the
\* flag, outside the lock, and ends.
run_institutional_end(w) ==
    /\ inst_workers[w] = "running"
    /\ institutional_running' = FALSE
    /\ inst_workers' = [inst_workers EXCEPT ![w] = "exited"]
    /\ UNCHANGED <<sentinel_running, active_trading_mode, sentinel_threads,
                   monVars, coordRest>>

\* sentinel_loop(): the while condition, read at the top of an iteration.
sentinel_loop_exit(t) ==
    /\ sentinel_threads[t] = "alive"
    /\ ~sentinel_running
    /\ sentinel_threads' = [sentinel_threads EXCEPT ![t] = "exited"]
    /\ UNCHANGED <<sentinel_running, institutional_running,
                   active_trading_mode, inst_workers, monVars, coordRest>>

\* sentinel_loop(): the while condition holds and the thread enters the body
\* of an iteration.
sentinel_loop_begin(t) ==
    /\ sentinel_threads[t] = "alive"
    /\ sentinel_running
    /\ sentinel_threads' = [sentinel_threads EXCEPT ![t] = "iterating"]
    /\ UNCHANGED <<sentinel_running, institutional_running,
                   active_trading_mode, inst_workers, monVars, coordRest>>

\* sentinel_loop(): the body of an iteration runs to its end, having called
\* client.place_order or not, and the thread is back at the while condition.
\* The flag is not read inside the body.
sentinel_iteration_end(t, order_submitted) ==
    /\ sentinel_threads[t] = "iterating"
    /\ sentinel_threads' = [sentinel_threads EXCEPT ![t] = "alive"]
    /\ last_cycle' =
          IF order_submitted
          THEN [kind |-> "sentinel_order", mode |-> active_trading_mode,
                inst_stopped |-> coord_hist.inst_stopped]
          ELSE last_cycle
    /\ UNCHANGED <<sentinel_running, institutional_running,
                   active_trading_mode, inst_workers, monVars, coordRest>>

\* institutional_main(): the prompt was answered YES and the worker enters
\* run_continuous().
run_continuous_begin(w) ==
    /\ inst_workers[w] = "running"
    /\ inst_workers' = [inst_workers EXCEPT ![w] = "run_continuous"]
    /\ UNCHANGED <<sentinel_running, institutional_running,
                   active_trading_mode, sentinel_threads, monVars, coordRest>>

\* run_continuous(): "while True: self.run_cycle()"; no flag is read.
run_cycle(w) ==
    /\ inst_workers[w] = "run_continuous"
    /\ last_cycle' =
          [kind |-> "institutional_cycle", mode |-> active_trading_mode,
           inst_stopped |-> coord_hist.inst_stopped]
    /\ UNCHANGED <<coordVars, monVars, coordRest>>

\* What a coordinator call leaves in the history: its name, whether the same
\* call came right before it, whether it changed the coordinator's state,
\* whether it is a start_sentinel whose preceding call was stop_sentinel,
\* whether it is a stop_sentinel, and whether stop_institutional has returned
\* with no start_institutional called since.
CallHist(op) ==
    coord_hist' =
       [op |-> op,
        repeated |-> coord_hist.op = op,
        changed |-> coordVars' # coordVars,
        restart |-> op = "start_sentinel" /\ coord_hist.sent_stopped,
        sent_stopped |-> op = "stop_sentinel",
        inst_stopped |-> IF op = "stop_institutional" THEN TRUE
                         ELSE IF op = "start_institutional" THEN FALSE
                         ELSE coord_hist.inst_stopped]
\* A step of a loop thread comes between two coordinator calls.
ThreadHist ==
    coord_hist' = [coord_hist EXCEPT !.op = "thread", !.repeated = FALSE,
                                     !.changed = FALSE, !.restart = FALSE]

CoordStartSentinel ==
    start_sentinel /\ CallHist("start_sentinel") /\ UNCHANGED last_cycle
CoordStopSentinel ==
    stop_sentinel /\ CallHist("stop_sentinel") /\ UNCHANGED last_cycle
CoordStartInstitutional ==
    start_institutional /\ CallHist("start_institutional") /\ UNCHANGED last_cycle
CoordStopInstitutional ==
    stop_institutional /\ CallHist("stop_institutional") /\ UNCHANGED last_cycle
CoordWorkerBegin ==
    \E w \in Workers :
       run_institutional_begin(w) /\ ThreadHist /\ UNCHANGED last_cycle
CoordWorkerEnd ==
    \E w \in Workers :
       run_institutional_end(w) /\ ThreadHist /\ UNCHANGED last_cycle
CoordWorkerLoop ==
    \E w \in Workers :
       run_continuous_begin(w) /\ ThreadHist /\ UNCHANGED last_cycle
CoordWorkerCycle == \E w \in Workers : run_cycle(w) /\ ThreadHist
CoordSentinelExit ==
    \E t \in SentinelThreads :
       sentinel_loop_exit(t) /\ ThreadHist /\ UNCHANGED last_cycle
CoordSentinelBegin ==
    \E t \in SentinelThreads :
       sentinel_loop_begin(t) /\ ThreadHist /\ UNCHANGED last_cycle
CoordSentinelEnd ==
    \E t \in SentinelThreads, order_submitted \in BOOLEAN :
       sentinel_iteration_end(t, order_submitted) /\ ThreadHist

NextCoord ==
    \/ CoordStartSentinel
    \/ CoordStopSentinel
    \/ CoordStartInstitutional
    \/ CoordStopInstitutional
    \/ CoordWorkerBegin
    \/ CoordWorkerEnd
    \/ CoordWorkerLoop
    \/ CoordWorkerCycle
    \/ CoordSentinelExit
    \/ CoordSentinelBegin
    \/ CoordSentinelEnd

(***************************************************************************)
(* Shared data: symbols, correlation groups, the clock                     *)
(***************************************************************************)
\* CORRELATION_GROUPS, the same table in the risk manager and the safety layer.
CORRELATION_GROUPS ==
    [A |-> {"cmt_btcusdt", "cmt_ethusdt"},
     B |-> {"cmt_solusdt", "cmt_dogeusdt"},
     C |-> {"cmt_bnbusdt", "cmt_ltcusdt"},
     D |-> {"cmt_xrpusdt", "cmt_adausdt"}]

\* _get_correlation_group(symbol); "NONE" stands for None.
GetCorrelationGroup(symbol) ==
    IF \E g \in DOMAIN CORRELATION_GROUPS : symbol \in CORRELATION_GROUPS[g]
    THEN CHOOSE g \in DOMAIN CORRELATION_GROUPS : symbol \in CORRELATION_GROUPS[g]
    ELSE "NONE"

\* None for an optional price (trailing_stop).
NoPrice == 0 - 1

Abs(x) == IF x < 0 THEN 0 - x ELSE x
Max2(a, b) == IF a >= b THEN a ELSE b
Min2(a, b) == IF a <= b THEN a ELSE b
SumOver(f) ==
    LET RECURSIVE S(_)
        S(D) == IF D = {} THEN 0
                ELSE LET x == CHOOSE y \in D : TRUE IN f[x] + S(D \ {x})
    IN S(DOMAIN f)

\* The calendar day advances.
DayRollover ==
    /\ today < MaxDay
    /\ today' = today + 1

(***************************************************************************)
(* Risk manager, src/risk/risk_manager.py                                  *)
(***************************************************************************)
\* Risk parameters, as percentages of equity.
RM_INITIAL_EQUITY == 10000
RM_MAX_DAILY_LOSS_PCT == 3
RM_MAX_DRAWDOWN_PCT == 12
RM_MAX_EXPOSURE_PCT == 40
RM_MAX_LEVERAGE == 20
RM_MAX_POSITIONS == 1
RM_TRAIL_ATR_MULT == 2

\* Inputs of the risk-manager calls.
RMSymbols == {"cmt_btcusdt", "cmt_ethusdt", "cmt_solusdt"}
RMDirections == {"LONG", "SHORT"}
RMEntryPrices == {1000}
RMSizes == {40, 80}
RMStopDistances == {4}
RMPrices == {996, 1000, 1002, 1004}
RMAtrs == {1}

RMInit ==
    /\ rm_current_equity = RM_INITIAL_EQUITY
    /\ rm_peak_equity = RM_INITIAL_EQUITY
    /\ rm_daily_starting_equity = RM_INITIAL_EQUITY
    /\ rm_last_reset_date = 0
    /\ rm_daily_pnl = 0
    /\ rm_positions = <<>>
    /\ rm_closed = 0
    /\ rm_last_op = [op |-> "none", ok |-> FALSE, latched |-> FALSE,
                     pos_changed |-> FALSE]
    /\ rm_kill_latched = FALSE

\* A daily-loss test with the limit taken ten times too wide.
DailyLossBreached_Wide(cur, start) ==
    (cur - start) * 100 < (0 - 10 * RM_MAX_DAILY_LOSS_PCT) * start

\* daily_loss_pct < -MAX_DAILY_LOSS, with
\* daily_loss_pct = (current_equity - daily_starting_equity) / daily_starting_equity
DailyLossBreached(cur, start) ==
    (cur - start) * 100 < (0 - RM_MAX_DAILY_LOSS_PCT) * start

\* drawdown > MAX_DRAWDOWN, with drawdown = (peak - current) / peak
DrawdownBreached(cur, peak) ==
    (peak - cur) * 100 > RM_MAX_DRAWDOWN_PCT * peak

RMUsedMargin(positions) ==
    SumOver([s \in DOMAIN positions |-> positions[s].margin_used])

\* can_open_position(symbol): the set of reasons; the position may be opened
\* iff it is empty.
RMReasons(symbol, cur, start, peak, positions) ==
    (IF DailyLossBreached(cur, start) THEN {"daily_loss"} ELSE {})
    \cup (IF DrawdownBreached(cur, peak) THEN {"drawdown"} ELSE {})
    \cup (IF GetCorrelationGroup(symbol) # "NONE"
             /\ \E sym \in CORRELATION_GROUPS[GetCorrelationGroup(symbol)] :
                    sym \in DOMAIN positions /\ sym # symbol
          THEN {"correlation"} ELSE {})
    \cup (IF Cardinality(DOMAIN positions) >= RM_MAX_POSITIONS
          THEN {"max_positions"} ELSE {})
    \cup (IF RMUsedMargin(positions) * 100 >= RM_MAX_EXPOSURE_PCT * cur
          THEN {"exposure"} ELSE {})

can_open_position(symbol) ==
    RMReasons(symbol, rm_current_equity, rm_daily_starting_equity,
              rm_peak_equity, rm_positions) = {}

\* History of an evaluation of the daily-loss limit: it found the limit
\* breached against a daily_starting_equity that was not snapshotted today.
StaleBlock(cur, start, last_reset_date) ==
    DailyLossBreached(cur, start) /\ last_reset_date # today

ResetDue_Never(last_reset_date) ==
    FALSE

\* reset_daily_tracking(): it resets when today > self.last_reset_date.
ResetDue(last_reset_date) ==
    today > last_reset_date

\* The history variable: the breach is remembered until reset_daily_tracking
\* actually resets.
RMLatch(reset) ==
    rm_kill_latched' =
        ((IF reset THEN FALSE ELSE rm_kill_latched)
         \/ (rm_current_equity' - rm_daily_starting_equity') * 100
               < (0 - 3) * rm_daily_starting_equity')

\* reset_daily_tracking(), reached through get_portfolio_risk() at the start of
\* every orchestrator cycle.
rm_get_portfolio_risk ==
    LET reset == ResetDue(rm_last_reset_date)
    IN  /\ rm_daily_starting_equity' =
              IF reset THEN rm_current_equity ELSE rm_daily_starting_equity
        /\ rm_daily_pnl' = IF reset THEN 0 ELSE rm_daily_pnl
        /\ rm_last_reset_date' = IF reset THEN today ELSE rm_last_reset_date
        /\ rm_last_op' = [op |-> "portfolio", ok |-> reset,
                          latched |-> rm_kill_latched, pos_changed |-> FALSE,
                          stale_block |-> StaleBlock(rm_current_equity,
                             rm_daily_starting_equity', rm_last_reset_date')]
        /\ UNCHANGED <<rm_current_equity, rm_peak_equity, rm_positions, rm_closed>>
        /\ RMLatch(reset)

\* open_position(symbol, direction, entry_price, size, stop_loss, take_profit,
\*               margin_used, atr)
rm_open_position(symbol, direction, entry_price, size, stop_loss, take_profit, margin_used, atr) ==
    LET ok == can_open_position(symbol)
        position == [symbol |-> symbol, direction |-> direction,
                     entry_price |-> entry_price, size |-> size,
                     stop_loss |-> stop_loss, take_profit |-> take_profit,
                     trailing_stop |-> NoPrice, margin_used |-> margin_used,
                     atr |-> atr, highest_price |-> entry_price]
    IN  /\ rm_positions' =
              IF ok
              THEN [s \in DOMAIN rm_positions \cup {symbol} |->
                        IF s = symbol THEN position ELSE rm_positions[s]]
              ELSE rm_positions
        /\ rm_last_op' = [op |-> "open", ok |-> ok, latched |-> rm_kill_latched,
                          pos_changed |-> rm_positions' # rm_positions,
                          stale_block |-> StaleBlock(rm_current_equity,
                             rm_daily_starting_equity, rm_last_reset_date)]
        /\ UNCHANGED <<rm_current_equity, rm_peak_equity,
                       rm_daily_starting_equity, rm_last_reset_date,
                       rm_daily_pnl, rm_closed>>
        /\ RMLatch(FALSE)

\* calculate_trailing_stop(entry_price, current_price, atr, direction,
\*                         highest_price); NoPrice stands for None.
calculate_trailing_stop(entry_price, current_price, atr, direction, highest_price) ==
    IF direction = "LONG"
    THEN IF current_price <= entry_price THEN NoPrice
         ELSE Max2(highest_price - RM_TRAIL_ATR_MULT * atr, entry_price)
    ELSE IF current_price >= entry_price THEN NoPrice
         ELSE Min2(highest_price + RM_TRAIL_ATR_MULT * atr, entry_price)

\* update_position(symbol, current_price, atr), for a symbol that has a position
\* (the call raises otherwise). The record of the call keeps, as history, the
\* price it was given and the stop it found.
rm_update_position(symbol, current_price, atr) ==
    /\ symbol \in DOMAIN rm_positions
    /\ LET pos == rm_positions[symbol]
           hp == IF pos.direction = "LONG"
                 THEN Max2(pos.highest_price, current_price)
                 ELSE Min2(pos.highest_price, current_price)
           ts == calculate_trailing_stop(pos.entry_price, current_price, atr,
                                         pos.direction, hp)
           better == /\ ts # NoPrice
                     /\ \/ pos.direction = "LONG" /\ ts > pos.stop_loss
                        \/ pos.direction = "SHORT" /\ ts < pos.stop_loss
           newpos == [pos EXCEPT !.highest_price = hp,
                                 !.stop_loss = IF better THEN ts ELSE @,
                                 !.trailing_stop = IF better THEN ts ELSE @]
       IN  /\ rm_positions' = [rm_positions EXCEPT ![symbol] = newpos]
           /\ rm_last_op' = [op |-> "update", ok |-> TRUE,
                             latched |-> rm_kill_latched,
                             pos_changed |-> newpos # pos,
                             symbol |-> symbol, price |-> current_price,
                             stop_before |-> pos.stop_loss]
    /\ UNCHANGED <<rm_current_equity, rm_peak_equity, rm_daily_starting_equity,
                   rm_last_reset_date, rm_daily_pnl, rm_closed>>
    /\ RMLatch(FALSE)

\* close_position(symbol, exit_price, reason), for a symbol that has a position
\* (the call raises otherwise).
rm_close_position(symbol, exit_price) ==
    /\ symbol \in DOMAIN rm_positions
    /\ LET pos == rm_positions[symbol]
           realized_pnl == IF pos.direction = "LONG"
                           THEN (exit_price - pos.entry_price) * pos.size
                           ELSE (pos.entry_price - exit_price) * pos.size
       IN  /\ rm_positions' = [s \in DOMAIN rm_positions \ {symbol} |-> rm_positions[s]]
           /\ rm_current_equity' = rm_current_equity + realized_pnl
           /\ rm_daily_pnl' = rm_daily_pnl + realized_pnl
    /\ rm_closed' = rm_closed + 1
    /\ rm_last_op' = [op |-> "close", ok |-> TRUE, latched |-> rm_kill_latched,
                      pos_changed |-> TRUE]
    /\ UNCHANGED <<rm_peak_equity, rm_daily_starting_equity, rm_last_reset_date>>
    /\ RMLatch(FALSE)

rmRest == <<coordVars, ghostVars, monVars, pmVars, shutVars, safetyVars,
           tradeVars, brainVars, pendVars>>

\* The calls the orchestrator makes on its risk manager, with their inputs.
RMDay == DayRollover /\ UNCHANGED <<rmVars, rmRest>>

RMPortfolio == rm_get_portfolio_risk /\ UNCHANGED <<today, rmRest>>

RMOpen ==
    \E symbol \in RMSymbols, direction \in RMDirections,
       entry_price \in RMEntryPrices, size \in RMSizes,
       d \in RMStopDistances, atr \in RMAtrs :
       /\ rm_closed < MaxRMTrades
       /\ rm_open_position(symbol, direction, entry_price, size,
             IF direction = "LONG" THEN entry_price - d ELSE entry_price + d,
             IF direction = "LONG" THEN entry_price + 2 * d ELSE entry_price - 2 * d,
             (size * entry_price) \div RM_MAX_LEVERAGE, atr)
       /\ UNCHANGED <<today, rmRest>>

RMUpdate ==
    \E symbol \in RMSymbols, current_price \in RMPrices, atr \in RMAtrs :
       rm_update_position(symbol, current_price, atr) /\ UNCHANGED <<today, rmRest>>

RMClose ==
    \E symbol \in RMSymbols, exit_price \in RMPrices :
       rm_close_position(symbol, exit_price) /\ UNCHANGED <<today, rmRest>>

NextRM == RMDay \/ RMPortfolio \/ RMOpen \/ RMUpdate \/ RMClose

\* run_cycle of the orchestrator, step by step, on its risk manager; the day
\* may change between any two steps.
cycleRest == <<coordVars, ghostVars, monVars, pmVars, shutVars, safetyVars,
               tradeVars, brainVars, sentinel_pending, engine, auxVars>>

CycleDay ==
    /\ DayRollover
    /\ UNCHANGED <<rmVars, rmRest>>

\* run_cycle: get_portfolio_risk(); with positions it goes on to manage them,
\* flat and with can_trade it goes on to scan, else the cycle ends.
CycleBegin ==
    /\ cycle_pc = "idle"
    /\ rm_get_portfolio_risk
    /\ cycle_pc' =
          IF DOMAIN rm_positions # {} THEN "manage"
          ELSE IF /\ ~DailyLossBreached(rm_current_equity, rm_daily_starting_equity')
                  /\ ~DrawdownBreached(rm_current_equity, rm_peak_equity)
               THEN "scan"
               ELSE "idle"
    /\ UNCHANGED <<today, cycleRest>>

\* manage_position: risk_manager.update_position(symbol, current_price, atr).
CycleUpdate ==
    \E symbol \in RMSymbols, current_price \in RMPrices, atr \in RMAtrs :
       /\ cycle_pc = "manage"
       /\ rm_update_position(symbol, current_price, atr)
       /\ cycle_pc' = "exit"
       /\ UNCHANGED <<today, cycleRest>>

\* manage_position: should_exit_position says exit, the close order fills at
\* exit_price and close_position registers it.
CycleClose ==
    \E symbol \in RMSymbols, exit_price \in RMPrices :
       /\ cycle_pc = "exit"
       /\ rm_close_position(symbol, exit_price)
       /\ cycle_pc' = "idle"
       /\ UNCHANGED <<today, cycleRest>>

\* manage_position: no exit, or the close order failed.
CycleKeep ==
    /\ cycle_pc = "exit"
    /\ cycle_pc' = "idle"
    /\ UNCHANGED <<today, rmVars, cycleRest>>

\* select_best_opportunity: can_open_position(asset.symbol) on the best asset;
\* an asset the risk filter blocks is skipped.
CycleSelect ==
    \E symbol \in RMSymbols :
       /\ cycle_pc = "scan"
       /\ rm_last_op' = [op |-> "select", ok |-> can_open_position(symbol),
                         latched |-> rm_kill_latched, pos_changed |-> FALSE,
                         stale_block |-> StaleBlock(rm_current_equity,
                            rm_daily_starting_equity, rm_last_reset_date)]
       /\ cycle_pc' = IF can_open_position(symbol) THEN "size" ELSE "idle"
       /\ UNCHANGED <<rm_current_equity, rm_peak_equity,
                      rm_daily_starting_equity, rm_last_reset_date,
                      rm_daily_pnl, rm_positions, rm_closed>>
       /\ RMLatch(FALSE)
       /\ UNCHANGED <<today, cycleRest>>

\* open_position of the orchestrator: calculate_position_size, which calls
\* reset_daily_tracking() and then can_open_position(symbol). The cycle goes
\* on as the orchestrator is written to go on when the sizing returns
\* can_trade; how the call ends as the module stands is
\* calculate_position_size below.
CycleSize ==
    \E symbol \in RMSymbols :
       LET reset == ResetDue(rm_last_reset_date)
           start == IF reset THEN rm_current_equity ELSE rm_daily_starting_equity
           ok == RMReasons(symbol, rm_current_equity, start, rm_peak_equity,
                           rm_positions) = {}
       IN  /\ cycle_pc = "size"
           /\ rm_daily_starting_equity' = start
           /\ rm_daily_pnl' = IF reset THEN 0 ELSE rm_daily_pnl
           /\ rm_last_reset_date' = IF reset THEN today ELSE rm_last_reset_date
           /\ rm_last_op' = [op |-> "size", ok |-> ok,
                             latched |-> rm_kill_latched, pos_changed |-> FALSE,
                             stale_block |-> StaleBlock(rm_current_equity, start,
                                rm_last_reset_date')]
           /\ cycle_pc' = IF ok THEN "register" ELSE "idle"
           /\ UNCHANGED <<rm_current_equity, rm_peak_equity, rm_positions,
                          rm_closed>>
           /\ RMLatch(reset)
           /\ UNCHANGED <<today, cycleRest>>

\* open_position of the orchestrator: the order is filled and
\* risk_manager.open_position registers the position.
CycleRegister ==
    \E symbol \in RMSymbols, direction \in RMDirections,
       entry_price \in RMEntryPrices, size \in RMSizes,
       d \in RMStopDistances, atr \in RMAtrs :
       /\ cycle_pc = "register"
       /\ rm_closed < MaxRMTrades
       /\ rm_open_position(symbol, direction, entry_price, size,
             IF direction = "LONG" THEN entry_price - d ELSE entry_price + d,
             IF direction = "LONG" THEN entry_price + 2 * d ELSE entry_price - 2 * d,
             (size * entry_price) \div RM_MAX_LEVERAGE, atr)
       /\ cycle_pc' = "idle"
       /\ UNCHANGED <<today, cycleRest>>

\* open_position of the orchestrator: the order was not filled.
CycleOrderFailed ==
    /\ cycle_pc = "register"
    /\ cycle_pc' = "idle"
    /\ UNCHANGED <<today, rmVars, cycleRest>>

NextCycle ==
    \/ CycleDay
    \/ CycleBegin
    \/ CycleUpdate
    \/ CycleClose
    \/ CycleKeep
    \/ CycleSelect
    \/ CycleSize
    \/ CycleRegister
    \/ CycleOrderFailed

(***************************************************************************)
(* Unified Position Manager, src/core/position_manager.py                  *)
(*                                                                         *)
(* position_lock is a threading.Lock: it is not reentrant, so a thread     *)
(* that holds it and calls a method that takes it again waits for itself.  *)
(* Every method below therefore has the guard position_lock = "free",      *)
(* whoever the caller is; the continuation of a caller that already holds  *)
(* the lock is written out as the code has it, behind that guard.          *)
(***************************************************************************)
TRAILING_STOP_ACTIVATION_R == 1
TRAILING_STOP_ATR_MULTIPLIER == 2

\* leverage = 20, the Sentinel loop's default.
SENTINEL_LEVERAGE == 20

\* Calls of open_position in one run.
MaxPMOpens == 2

\* Inputs of the position manager's methods.
PMSymbols == {"cmt_btcusdt"}
PMDirections == {"LONG", "SHORT"}
PMEntryPrices == {1000}
PMSizes == {2}
PMStopDistances == {1, 3}
PMTargetDistances == {4}
PMAtrs == {1, 2}
PMPrices == {996, 998, 1000, 1002, 1004}
PMReasons == {"Manual", "System shutdown"}
\* What the exchange answers during a close: the position list without the
\* symbol, no usable list, a list that cannot be read (the except branch), or
\* a list with the symbol followed by an accepted or a rejected order.
PMExchange == {"absent", "list_failed", "list_malformed", "accepted", "rejected"}
PMThreads == {"api", "monitor"}

NoArgs == [symbol |-> "none"]
NoClose == [symbol |-> "none"]

PMInit ==
    /\ pm_positions = << >>
    /\ pm_order = << >>
    /\ position_lock = "free"
    /\ monitor_running = FALSE
    /\ mon_pc = "none"
    /\ mon_todo = << >>
    /\ mon_price = NoPrice
    /\ mon_to_close = << >>
    /\ api_pc = "idle"
    /\ api_args = NoArgs
    /\ total_positions_opened = 0
    /\ total_positions_closed = 0
    /\ pm_last_close = NoClose
    /\ shut_pc = "none"
    /\ shut_todo = << >>

\* Position(...) as open_position builds it.  initial_stop is history: the
\* stop the position was opened with.
Position(a) ==
    [symbol |-> a.symbol, side |-> a.side, direction |-> a.direction,
     size |-> a.size, entry_price |-> a.entry_price,
     current_price |-> a.entry_price, stop_loss |-> a.stop_loss,
     take_profit |-> a.take_profit, trailing_stop |-> NoPrice,
     leverage |-> a.leverage, margin_used |-> a.margin_used,
     unrealized_pnl |-> 0, order_id |-> a.order_id, status |-> "OPEN",
     source |-> a.source, highest_price |-> a.entry_price,
     lowest_price |-> a.entry_price, atr |-> a.atr,
     initial_stop |-> a.stop_loss]

\* The dict with one key removed / one key set, and the key order with it.
DictDel(d, k) == [x \in DOMAIN d \ {k} |-> d[x]]
DictSet(d, k, v) == [x \in DOMAIN d \cup {k} |-> IF x = k THEN v ELSE d[x]]
OrderDel(o, k) == SelectSeq(o, LAMBDA x : x # k)
OrderSet(o, k) == IF \E i \in DOMAIN o : o[i] = k THEN o ELSE Append(o, k)

\* The early returns of _update_trailing_stop with the activation threshold
\* left out: any profit activates (a mutation).
TrailingActive_AnyProfit(pos) ==
    LET risk_distance == Abs(pos.entry_price - pos.stop_loss)
        current_profit == IF pos.direction = "LONG"
                          THEN pos.current_price - pos.entry_price
                          ELSE pos.entry_price - pos.current_price
    IN  /\ risk_distance # 0
        /\ current_profit > 0
\* The early returns of _update_trailing_stop: it goes on only with a
\* non-zero risk distance, a profit, and profit_in_r of at least
\* TRAILING_STOP_ACTIVATION_R (current_profit / risk_distance >= 1.0).
TrailingActive(pos) ==
    LET risk_distance == Abs(pos.entry_price - pos.stop_loss)
        current_profit == IF pos.direction = "LONG"
                          THEN pos.current_price - pos.entry_price
                          ELSE pos.entry_price - pos.current_price
    IN  /\ risk_distance # 0
        /\ current_profit > 0
        /\ ~(current_profit < TRAILING_STOP_ACTIVATION_R * risk_distance)

\* _update_trailing_stop(pos) with the "only if better" tests dropped (a
\* mutation).
update_trailing_stop_Unguarded(pos) ==
    LET trail_distance == TRAILING_STOP_ATR_MULTIPLIER * pos.atr
        new_trailing_stop == IF pos.direction = "LONG"
                             THEN pos.highest_price - trail_distance
                             ELSE pos.lowest_price + trail_distance
    IN  IF ~TrailingActive(pos) THEN pos
        ELSE [pos EXCEPT !.trailing_stop = new_trailing_stop,
                         !.stop_loss = new_trailing_stop]
\* _update_trailing_stop(pos), past the early returns: the trailing level from
\* the extreme price, written to trailing_stop when there was none or it is
\* better, and then to stop_loss when it is better than the stop.
update_trailing_stop(pos) ==
    LET trail_distance == TRAILING_STOP_ATR_MULTIPLIER * pos.atr
        new_trailing_stop == IF pos.direction = "LONG"
                             THEN pos.highest_price - trail_distance
                             ELSE pos.lowest_price + trail_distance
        better(x, y) == IF pos.direction = "LONG" THEN x > y ELSE x < y
    IN  IF ~TrailingActive(pos) THEN pos
        ELSE IF pos.trailing_stop = NoPrice \/ better(new_trailing_stop, pos.trailing_stop)
             THEN [pos EXCEPT !.trailing_stop = new_trailing_stop,
                              !.stop_loss = IF better(new_trailing_stop, pos.stop_loss)
                                            THEN new_trailing_stop ELSE pos.stop_loss]
             ELSE pos

\* The body of update_position_price on the position: price, extremes,
\* unrealized PnL, then the trailing stop.
PriceUpdated(pos, current_price) ==
    update_trailing_stop(
        [pos EXCEPT !.current_price = current_price,
                    !.highest_price = Max2(pos.highest_price, current_price),
                    !.lowest_price = Min2(pos.lowest_price, current_price),
                    !.unrealized_pnl = IF pos.direction = "LONG"
                                       THEN (current_price - pos.entry_price) * pos.size
                                       ELSE (pos.entry_price - current_price) * pos.size])

\* check_exit_conditions(pos); expired says whether the position is older
\* than 24 hours.
check_exit_conditions(pos, expired) ==
    IF pos.direction = "LONG" /\ pos.current_price <= pos.stop_loss
    THEN [should_exit |-> TRUE, reason |-> "Stop loss hit"]
    ELSE IF pos.direction = "SHORT" /\ pos.current_price >= pos.stop_loss
    THEN [should_exit |-> TRUE, reason |-> "Stop loss hit"]
    ELSE IF pos.direction = "LONG" /\ pos.current_price >= pos.take_profit
    THEN [should_exit |-> TRUE, reason |-> "Take profit hit"]
    ELSE IF pos.direction = "SHORT" /\ pos.current_price <= pos.take_profit
    THEN [should_exit |-> TRUE, reason |-> "Take profit hit"]
    ELSE IF expired
    THEN [should_exit |-> TRUE, reason |-> "Time stop"]
    ELSE [should_exit |-> FALSE, reason |-> "Active"]

\* start_monitoring(), as open_position calls it when the flag is clear: sets
\* the flag and starts the monitor thread at the top of monitor_loop.  A
\* monitor thread that has not yet left its loop finds the flag set again and
\* goes on.
StartMonitoring ==
    /\ monitor_running' = TRUE
    /\ mon_pc' = IF mon_pc = "none" THEN "idle" ELSE mon_pc

\* open_position(...), from "Create position" to the return, on the map
\* positions0 with key order order0.
OpenTail(positions0, order0, a) ==
    /\ pm_positions' = DictSet(positions0, a.symbol, Position(a))
    /\ pm_order' = OrderSet(order0, a.symbol)
    /\ total_positions_opened' = total_positions_opened + 1
    /\ StartMonitoring

\* open_position(...): takes the lock; when the symbol is already in the map
\* it calls close_position while holding the lock and waits there.
pm_open_position(a) ==
    /\ api_pc = "idle"
    /\ position_lock = "free"
    /\ total_positions_opened < MaxPMOpens
    /\ IF a.symbol \in DOMAIN pm_positions
       THEN /\ position_lock' = "api"
            /\ api_pc' = "open_position"
            /\ api_args' = a
            /\ UNCHANGED <<pm_positions, pm_order, total_positions_opened,
                           monVars>>
       ELSE /\ OpenTail(pm_positions, pm_order, a)
            /\ UNCHANGED <<position_lock, api_pc, api_args>>
    /\ UNCHANGED <<mon_todo, mon_price, mon_to_close, total_positions_closed,
                   pm_last_close>>

\* update_position_price(symbol, current_price), called by thread t: by the
\* monitor for the position it is visiting with the price it fetched, or by
\* any other thread.  When the monitor's call returns, monitor_loop checks the
\* exit conditions and goes on to the next position.
pm_update_position_price(t, symbol, current_price) ==
    /\ position_lock = "free"
    /\ \/ t = "api" /\ api_pc = "idle"
       \/ /\ t = "monitor"
          /\ mon_pc = "update_position_price"
          /\ symbol = Head(mon_todo)
          /\ current_price = mon_price
    /\ IF symbol \notin DOMAIN pm_positions
       THEN UNCHANGED <<pm_positions, mon_pc, mon_todo, mon_to_close>>
       ELSE LET pos == PriceUpdated(pm_positions[symbol], current_price)
            IN  /\ pm_positions' = [pm_positions EXCEPT ![symbol] = pos]
                /\ IF t = "monitor"
                   THEN \E expired \in BOOLEAN :
                        LET ex == check_exit_conditions(pos, expired)
                        IN  /\ mon_to_close' =
                                  IF ex.should_exit
                                  THEN Append(mon_to_close,
                                          [symbol |-> symbol,
                                           price |-> current_price,
                                           reason |-> ex.reason])
                                  ELSE mon_to_close
                            /\ mon_todo' = Tail(mon_todo)
                            /\ mon_pc' = "fetch"
                   ELSE UNCHANGED <<mon_pc, mon_todo, mon_to_close>>
    /\ UNCHANGED <<pm_order, position_lock, monitor_running, mon_price, api_pc,
                   api_args, total_positions_opened, total_positions_closed,
                   pm_last_close>>

\* The trade record close_position saves; notes is
\* f"{reason} | {pos.source} | Entry: ... | Hold: ...", kept as its two
\* textual parts.  The last six fields are history: the closed position's
\* direction and entry, what the exchange answered, whether place_order was
\* called, whether it was called inside close_position's
\* "with self.position_lock" block (the whole body is), and whether the
\* position was deleted from the map.
TradeRecord(pos, exit_price, reason, exchange) ==
    [symbol |-> pos.symbol,
     side |-> pos.side,
     size |-> pos.size,
     price |-> exit_price,
     order_id |-> IF exchange = "accepted" THEN "close_order_id" ELSE pos.order_id,
     order_type |-> "market",
     status |-> "filled",
     pnl |-> IF pos.direction = "LONG"
             THEN (exit_price - pos.entry_price) * pos.size
             ELSE (pos.entry_price - exit_price) * pos.size,
     notes |-> {reason, pos.source},
     direction |-> pos.direction,
     entry_price |-> pos.entry_price,
     exchange |-> exchange,
     order_submitted |-> exchange \in {"accepted", "rejected"},
     order_under_lock |-> exchange \in {"accepted", "rejected"},
     removed |-> TRUE]

\* close_position(symbol, exit_price, reason), called by thread t: at top
\* level, by open_position for the position it replaces, by the monitor
\* for the head of symbols_to_close, or by shutdown() for the next of its
\* symbols.  The caller's code after the call is part of the step.
pm_close_position(t, symbol, exit_price, reason, exchange) ==
    /\ position_lock = "free"
    /\ \/ t = "api" /\ api_pc = "idle" /\ reason \in PMReasons
       \/ /\ t = "api"
          /\ api_pc = "open_position"
          /\ symbol = api_args.symbol
          /\ exit_price = api_args.entry_price
          /\ reason = "Position replacement"
       \/ /\ t = "monitor"
          /\ mon_pc = "close_position"
          /\ mon_to_close # << >>
          /\ symbol = Head(mon_to_close).symbol
          /\ exit_price = Head(mon_to_close).price
          /\ reason = Head(mon_to_close).reason
       \/ /\ t = "shutdown"
          /\ shut_pc = "close"
          /\ shut_todo # << >>
          /\ symbol = Head(shut_todo)
          /\ reason = "System shutdown"
    /\ LET held == symbol \in DOMAIN pm_positions
           positions1 == IF held THEN DictDel(pm_positions, symbol) ELSE pm_positions
           order1 == IF held THEN OrderDel(pm_order, symbol) ELSE pm_order
       IN  /\ total_positions_closed' =
                 IF held THEN total_positions_closed + 1 ELSE total_positions_closed
           /\ pm_last_close' =
                 IF held
                 THEN [TradeRecord(pm_positions[symbol], exit_price, reason, exchange)
                          EXCEPT !.removed = symbol \notin DOMAIN positions1]
                 ELSE pm_last_close
           /\ IF t = "api" /\ api_pc = "open_position"
              THEN /\ OpenTail(positions1, order1, api_args)
                   /\ position_lock' = "free"
                   /\ api_pc' = "idle"
                   /\ api_args' = NoArgs
                   /\ UNCHANGED mon_to_close
              ELSE IF t = "monitor"
              THEN /\ pm_positions' = positions1
                   /\ pm_order' = order1
                   /\ mon_to_close' = Tail(mon_to_close)
                   /\ mon_pc' = IF Tail(mon_to_close) = << >> THEN "idle" ELSE mon_pc
                   /\ position_lock' =
                         IF Tail(mon_to_close) = << >> THEN "free" ELSE position_lock
                   /\ UNCHANGED <<monitor_running, api_pc, api_args,
                                  total_positions_opened>>
              ELSE /\ pm_positions' = positions1
                   /\ pm_order' = order1
                   /\ UNCHANGED <<position_lock, monVars, mon_to_close, api_pc,
                                  api_args, total_positions_opened>>
    /\ UNCHANGED <<mon_todo, mon_price>>

\* monitor_loop, top of an iteration: takes the lock and starts the walk over
\* the positions.
monitor_loop_begin ==
    /\ mon_pc = "idle"
    /\ monitor_running
    /\ position_lock = "free"
    /\ position_lock' = "monitor"
    /\ mon_todo' = pm_order
    /\ mon_to_close' = << >>
    /\ mon_pc' = "fetch"
    /\ UNCHANGED <<pm_positions, pm_order, monitor_running, mon_price, api_pc,
                   api_args, total_positions_opened, total_positions_closed,
                   pm_last_close>>

\* monitor_loop, next position of the walk: marks it MONITORING, fetches its
\* price (fetch_candles always answers) and calls update_position_price; after
\* the last position it turns to symbols_to_close, or releases the lock and
\* sleeps when there is nothing to close.
monitor_loop_fetch(price) ==
    /\ mon_pc = "fetch"
    /\ IF mon_todo # << >>
       THEN /\ pm_positions' =
                  [pm_positions EXCEPT ![Head(mon_todo)].status = "MONITORING"]
            /\ mon_price' = price
            /\ mon_pc' = "update_position_price"
            /\ UNCHANGED position_lock
       ELSE /\ mon_pc' = IF mon_to_close = << >> THEN "idle" ELSE "close_position"
            /\ position_lock' = IF mon_to_close = << >> THEN "free" ELSE position_lock
            /\ UNCHANGED <<pm_positions, mon_price>>
    /\ UNCHANGED <<pm_order, monitor_running, mon_todo, mon_to_close, api_pc,
                   api_args, total_positions_opened, total_positions_closed,
                   pm_last_close>>

\* What the position manager never touches, and the same with the state of
\* a shutdown() call.
\* monitor_loop, the while condition read with the flag cleared: the thread
\* ends.
monitor_loop_exit ==
    /\ mon_pc = "idle"
    /\ ~monitor_running
    /\ mon_pc' = "none"
    /\ UNCHANGED <<pm_positions, pm_order, position_lock, monitor_running,
                   mon_todo, mon_price, mon_to_close, api_pc, api_args,
                   total_positions_opened, total_positions_closed,
                   pm_last_close>>

\* shutdown(), first statement: stop_monitoring() clears the flag and joins
\* the monitor thread for at most 10 seconds, then goes on whether the thread
\* has ended or not.
shutdown_begin ==
    /\ shut_pc = "none"
    /\ monitor_running' = FALSE
    /\ shut_pc' = "list"
    /\ UNCHANGED <<pm_positions, pm_order, position_lock, mon_pc, mon_todo,
                   mon_price, mon_to_close, api_pc, api_args,
                   total_positions_opened, total_positions_closed,
                   pm_last_close, shut_todo>>

\* shutdown(): "with self.position_lock: symbols = list(self.positions.keys())".
shutdown_list ==
    /\ shut_pc = "list"
    /\ position_lock = "free"
    /\ shut_todo' = pm_order
    /\ shut_pc' = "close"
    /\ UNCHANGED <<pm_positions, pm_order, position_lock, monVars, mon_todo,
                   mon_price, mon_to_close, api_pc, api_args,
                   total_positions_opened, total_positions_closed,
                   pm_last_close>>

\* shutdown(), the for loop: returns after the last symbol; otherwise
\* get_position(symbol) and, when the position is still there,
\* close_position(symbol, pos.current_price, "System shutdown").
shutdown_close(exchange) ==
    /\ shut_pc = "close"
    /\ IF shut_todo = << >>
       THEN /\ shut_pc' = "done"
            /\ UNCHANGED <<pmVars, monVars, shut_todo>>
       ELSE /\ position_lock = "free"
            /\ shut_todo' = Tail(shut_todo)
            /\ UNCHANGED shut_pc
            /\ IF Head(shut_todo) \in DOMAIN pm_positions
               THEN pm_close_position("shutdown", Head(shut_todo),
                       pm_positions[Head(shut_todo)].current_price,
                       "System shutdown", exchange)
               ELSE UNCHANGED <<pmVars, monVars>>

pmOuter == <<coordVars, ghostVars, today, rmVars, safetyVars, tradeVars,
            brainVars, pendVars>>
pmRest == <<pmOuter, shutVars>>

\* The callers of the position manager, with their inputs.
PMOpen ==
    \E symbol \in PMSymbols, direction \in PMDirections,
       entry_price \in PMEntryPrices, size \in PMSizes,
       d \in PMStopDistances, g \in PMTargetDistances, atr \in PMAtrs :
       /\ pm_open_position(
             [symbol |-> symbol,
              side |-> IF direction = "LONG" THEN "buy" ELSE "sell",
              direction |-> direction, size |-> size,
              entry_price |-> entry_price,
              stop_loss |-> IF direction = "LONG" THEN entry_price - d
                            ELSE entry_price + d,
              take_profit |-> IF direction = "LONG" THEN entry_price + g
                              ELSE entry_price - g,
              leverage |-> SENTINEL_LEVERAGE,
              margin_used |-> (size * entry_price) \div SENTINEL_LEVERAGE,
              atr |-> atr, order_id |-> "open_order_id",
              source |-> "SENTINEL"])
       /\ UNCHANGED pmRest

PMUpdatePrice ==
    \E t \in PMThreads, symbol \in PMSymbols, current_price \in PMPrices :
       pm_update_position_price(t, symbol, current_price) /\ UNCHANGED pmRest

PMClose ==
    \E t \in PMThreads, symbol \in PMSymbols, exit_price \in PMPrices,
       reason \in PMReasons \cup {"Position replacement", "Stop loss hit",
                                  "Take profit hit", "Time stop"},
       exchange \in PMExchange :
       pm_close_position(t, symbol, exit_price, reason, exchange) /\ UNCHANGED pmRest

PMMonitorBegin == monitor_loop_begin /\ UNCHANGED pmRest

PMMonitorFetch == \E price \in PMPrices : monitor_loop_fetch(price) /\ UNCHANGED pmRest

NextPM == PMOpen \/ PMUpdatePrice \/ PMClose \/ PMMonitorBegin \/ PMMonitorFetch

\* The process from start-up to the end of shutdown_event's call of
\* position_manager.shutdown().
PMMonitorExit == monitor_loop_exit /\ UNCHANGED pmRest

ShutdownBegin == shutdown_begin /\ UNCHANGED pmOuter

ShutdownList == shutdown_list /\ UNCHANGED pmOuter

ShutdownClose == \E exchange \in PMExchange : shutdown_close(exchange) /\ UNCHANGED pmOuter

\* The callers are the program's: the Sentinel loop opens positions, the
\* monitor thread walks them, shutdown_event shuts down.  The monitor's calls
\* of update_position_price and close_position wait for the lock the monitor
\* holds, so they have no step here.
NextShutdown ==
    \/ PMOpen
    \/ PMMonitorBegin
    \/ PMMonitorFetch
    \/ PMMonitorExit
    \/ ShutdownBegin
    \/ ShutdownList
    \/ ShutdownClose

\* The steps of the monitor thread inside the methods it calls, and the step
\* of a caller of open_position inside close_position: a thread that can run
\* does run.
MonitorUpdateStep ==
    \E symbol \in PMSymbols, current_price \in PMPrices :
       pm_update_position_price("monitor", symbol, current_price) /\ UNCHANGED pmRest

MonitorCloseStep ==
    \E symbol \in PMSymbols, exit_price \in PMPrices,
       reason \in {"Stop loss hit", "Take profit hit", "Time stop"},
       exchange \in PMExchange :
       pm_close_position("monitor", symbol, exit_price, reason, exchange)
          /\ UNCHANGED pmRest

ReplaceCloseStep ==
    \E symbol \in PMSymbols, exit_price \in PMEntryPrices, exchange \in PMExchange :
       /\ api_pc = "open_position"
       /\ pm_close_position("api", symbol, exit_price, "Position replacement", exchange)
       /\ UNCHANGED pmRest

PMFairness ==
    /\ WF_vars(PMMonitorBegin)
    /\ WF_vars(PMMonitorFetch)
    /\ WF_vars(MonitorUpdateStep)
    /\ WF_vars(MonitorCloseStep)
    /\ WF_vars(ReplaceCloseStep)

(***************************************************************************)
(* Execution safety layer, src/core/safety_layer.py, and the order paths   *)
(* of src/api_server.py.  Money is counted in hundredths of a USDT, so     *)
(* that the Sentinel loop's sizes are whole contracts.                     *)
(***************************************************************************)
\* initial_equity = 10000.0 USDT.
SL_INITIAL_EQUITY == 1000000
SL_MIN_LIQUIDATION_DISTANCE_PCT == 4
SL_MAX_DAILY_LOSS_PCT == 3
SL_MAX_DRAWDOWN_PCT == 12
SL_MAX_EXPOSURE_PCT == 40
\* MIN_ORDER_SIZES, in thousandths of a contract.
MIN_ORDER_SIZES ==
    [cmt_btcusdt |-> 1, cmt_ethusdt |-> 10, cmt_solusdt |-> 100,
     cmt_dogeusdt |-> 10000, cmt_xrpusdt |-> 1000, cmt_adausdt |-> 1000,
     cmt_bnbusdt |-> 10, cmt_ltcusdt |-> 10]

\* validate_trade calls in one run.
MaxChecks == 2

NoCheck == [valid |-> FALSE]

SafetyInit ==
    /\ sl_current_equity = SL_INITIAL_EQUITY
    /\ sl_peak_equity = SL_INITIAL_EQUITY
    /\ sl_daily_starting_equity = SL_INITIAL_EQUITY
    /\ sl_last_reset_date = 0
    /\ sl_total_checks = 0
    /\ sl_total_rejections = 0
    /\ sl_last_check = NoCheck
    /\ sl_rejection_reasons = [n \in {} |-> 0]

\* sum(p.get("margin_used", 0) for p in current_positions)
SLUsedMargin(current_positions) ==
    SumOver([s \in DOMAIN current_positions |-> current_positions[s].margin_used])

\* check_liquidation_distance: liq_price = entry * (1 -/+ (1 / leverage) * 0.9),
\* the stop must be at least 4% of entry away from it.  Multiplied through by
\* 10 * leverage * 100.
LiquidationTooClose(entry_price, direction, leverage, stop_loss) ==
    IF direction = "LONG"
    THEN (stop_loss * 10 * leverage - entry_price * (10 * leverage - 9)) * 100
            < SL_MIN_LIQUIDATION_DISTANCE_PCT * entry_price * 10 * leverage
    ELSE (entry_price * (10 * leverage + 9) - stop_loss * 10 * leverage) * 100
            < SL_MIN_LIQUIDATION_DISTANCE_PCT * entry_price * 10 * leverage

\* check_daily_loss_limit: daily_pnl / daily_starting_equity < -0.03.
SLDailyLossBreached(cur, start) ==
    (cur - start) * 100 < (0 - SL_MAX_DAILY_LOSS_PCT) * start

\* The CRITICAL checks of validate_trade that fail, by check_name, on the
\* equity figures cur, start (after reset_daily_tracking) and peak.
CriticalFailures(symbol, direction, size, entry_price, stop_loss, take_profit, leverage, margin_required, current_positions, cur, start, peak) ==
    (IF symbol \notin DOMAIN MIN_ORDER_SIZES THEN {"SYMBOL_VALIDITY"} ELSE {})
    \cup (IF size * 1000 < (IF symbol \in DOMAIN MIN_ORDER_SIZES
                            THEN MIN_ORDER_SIZES[symbol] ELSE 1)
          THEN {"MINIMUM_ORDER_SIZE"} ELSE {})
    \cup (IF \/ entry_price <= 0 \/ stop_loss <= 0 \/ take_profit <= 0
             \/ Abs(entry_price - stop_loss) = 0
             \/ Abs(take_profit - entry_price) < Abs(entry_price - stop_loss)
          THEN {"PRICE_REASONABLENESS"} ELSE {})
    \cup (IF margin_required > cur - SLUsedMargin(current_positions)
          THEN {"MARGIN_AVAILABILITY"} ELSE {})
    \cup (IF LiquidationTooClose(entry_price, direction, leverage, stop_loss)
          THEN {"LIQUIDATION_DISTANCE"} ELSE {})
    \cup (IF SLDailyLossBreached(cur, start) THEN {"DAILY_LOSS_LIMIT"} ELSE {})
    \cup (IF (peak - cur) * 100 > SL_MAX_DRAWDOWN_PCT * peak
          THEN {"MAX_DRAWDOWN"} ELSE {})
    \cup (IF (SLUsedMargin(current_positions) + margin_required) * 100
                > SL_MAX_EXPOSURE_PCT * cur
          THEN {"EXPOSURE_LIMIT"} ELSE {})

\* check_correlation_conflict: fails with severity WARNING only.
CorrelationWarning(symbol, current_positions) ==
    /\ GetCorrelationGroup(symbol) # "NONE"
    /\ \E s \in DOMAIN current_positions :
          s # symbol /\ s \in CORRELATION_GROUPS[GetCorrelationGroup(symbol)]

\* The nine checks validate_trade runs, by check_name.
SL_CHECKS ==
    {"SYMBOL_VALIDITY", "MINIMUM_ORDER_SIZE", "PRICE_REASONABLENESS",
     "MARGIN_AVAILABILITY", "LIQUIDATION_DISTANCE", "DAILY_LOSS_LIMIT",
     "MAX_DRAWDOWN", "EXPOSURE_LIMIT", "CORRELATION_CONFLICT"}

\* results, the SafetyCheckResult of each check: a failed check of the first
\* eight is CRITICAL, a failed correlation check is WARNING, a passed check
\* is INFO.
CheckResults(failures, warning) ==
    {[check_name |-> n,
      passed |-> ~(n \in failures \/ (n = "CORRELATION_CONFLICT" /\ warning)),
      severity |-> IF n \in failures THEN "CRITICAL"
                   ELSE IF n = "CORRELATION_CONFLICT" /\ warning THEN "WARNING"
                   ELSE "INFO"] : n \in SL_CHECKS}

CanExecute_AnyFailure(results) ==
    {r \in results : ~r.passed} = {}
\* can_execute = len(critical_failures) == 0
CanExecute(results) ==
    {r \in results : ~r.passed /\ r.severity = "CRITICAL"} = {}

\* rejection_reasons.get(name, 0)
RejectionCount(reasons, name) ==
    IF name \in DOMAIN reasons THEN reasons[name] ELSE 0

RejectionReasons_Flag(reasons, critical_failures) ==
    [n \in DOMAIN reasons \cup critical_failures |->
        IF n \in critical_failures THEN 1 ELSE reasons[n]]
\* for failure in critical_failures:
\*     rejection_reasons[check_name] = rejection_reasons.get(check_name, 0) + 1
RejectionReasons(reasons, critical_failures) ==
    [n \in DOMAIN reasons \cup critical_failures |->
        IF n \in critical_failures THEN RejectionCount(reasons, n) + 1
        ELSE reasons[n]]

\* validate_trade(...): counts the check, runs the nine checks (the daily one
\* resets the daily tracking first) and counts a rejection when a CRITICAL
\* check failed.  The result is left in sl_last_check, with the loss the
\* position manager has realized today as history.
validate_trade(symbol, direction, size, entry_price, stop_loss, take_profit, leverage, margin_required, current_positions) ==
    LET reset == today > sl_last_reset_date
        start == IF reset THEN sl_current_equity ELSE sl_daily_starting_equity
        failures == CriticalFailures(symbol, direction, size, entry_price,
                       stop_loss, take_profit, leverage, margin_required,
                       current_positions, sl_current_equity, start, sl_peak_equity)
        results == CheckResults(failures,
                      CorrelationWarning(symbol, current_positions))
    IN  /\ sl_total_checks' = sl_total_checks + 1
        /\ sl_daily_starting_equity' = start
        /\ sl_last_reset_date' = IF reset THEN today ELSE sl_last_reset_date
        /\ sl_total_rejections' =
              IF CanExecute(results) THEN sl_total_rejections
              ELSE sl_total_rejections + 1
        /\ sl_last_check' =
              [valid |-> TRUE, symbol |-> symbol,
               can_execute |-> CanExecute(results),
               failures |-> failures,
               warning |-> CorrelationWarning(symbol, current_positions),
               realized_today |-> pm_realized_today,
               daily_starting_equity |-> start]
        /\ sl_rejection_reasons' =
              IF CanExecute(results) THEN sl_rejection_reasons
              ELSE RejectionReasons(sl_rejection_reasons, failures)
        /\ UNCHANGED <<sl_current_equity, sl_peak_equity>>

\* The Sentinel loop's position size: min(max(available * 0.03, 5), 30) USDT
\* of notional at the current price, and at least the smallest size
\* (max(round(contract_size, 4), 0.001); the model's sizes are whole units).
SentinelSize(available_usdt, current_price) ==
    Max2(Min2(Max2((available_usdt * 3) \div 100, 500), 3000) \div current_price, 1)

SentinelMargin_NoLeverage(size, current_price) ==
    size * current_price

\* margin_required = float(size) * current_price / leverage, leverage = 20.
SentinelMargin(size, current_price) ==
    (size * current_price) \div SENTINEL_LEVERAGE

\* The inputs of the gates of one sentinel_loop iteration: the action of the
\* first triggered strategy ("none" when no strategy triggered), the advisor's
\* decision and confidence, the risk_tolerance setting, the RSI, and the
\* classifier's direction ("untrained" when train_model returned False).
NoGate == [strategy |-> "none", ai_decision |-> "WAIT", ai_confidence |-> 0, risk_tolerance |-> 0, rsi |-> 50, ml_dir |-> "untrained"]

\* No Sentinel iteration has run yet.
NoAudit == [outcome |-> "none", row |-> "none", gate |-> NoGate]

\* The decision of the iteration: the advisor's when no strategy triggered or
\* the strategy says WAIT, else the strategy's action.
GateDecision(g) ==
    IF g.strategy \in {"none", "WAIT"} THEN g.ai_decision ELSE g.strategy

\* Its confidence: strategy-based trades get 85.
GateConfidence(g) ==
    IF g.strategy \in {"none", "WAIT"} THEN g.ai_confidence ELSE 85

\* confidence_threshold = 90 - risk_tolerance; confidence >= threshold.
ConfidenceGate(g) ==
    GateConfidence(g) >= 90 - g.risk_tolerance

is_safe_NoRsiGuard(g) ==
    TRUE

\* is_safe: no BUY with RSI above 70, no SELL with RSI below 30.
is_safe(g) ==
    /\ ~(GateDecision(g) = "BUY" /\ g.rsi > 70)
    /\ ~(GateDecision(g) = "SELL" /\ g.rsi < 30)

\* ml_agrees: BUY with UP or SELL with DOWN.
ml_agrees(g) ==
    \/ GateDecision(g) = "BUY" /\ g.ml_dir = "UP"
    \/ GateDecision(g) = "SELL" /\ g.ml_dir = "DOWN"

\* The confluence check: skipped when a strategy triggered (strategy_name is
\* set); else a trained classifier that does not agree blocks the trade.
ConfluenceMiss(g) ==
    /\ g.strategy = "none"
    /\ g.ml_dir # "untrained"
    /\ ~ml_agrees(g)

\* should_execute at the sizing step of the iteration.
should_execute(g) ==
    /\ GateDecision(g) \in {"BUY", "SELL"}
    /\ ConfidenceGate(g)
    /\ is_safe(g)
    /\ ~ConfluenceMiss(g)


\* The locals of a sentinel_loop iteration between its existing-position
\* check and its place_order call.
NoPending == [symbol |-> "none"]

\* sentinel_loop from validate_trade to the market_log row of the attempt:
\* asks validate_trade, places the order and, when the exchange accepts it,
\* registers the position with the position manager; after place_order it
\* writes the market_log row of the attempt.
sentinel_place(symbol, decision, current_price, atr, available_usdt, accepted, gate) ==
    LET size == SentinelSize(available_usdt, current_price)
        direction == IF decision = "BUY" THEN "LONG" ELSE "SHORT"
        side == IF decision = "BUY" THEN "buy" ELSE "sell"
        stop_loss == IF decision = "BUY" THEN current_price - (atr * 3) \div 2
                     ELSE current_price + (atr * 3) \div 2
        take_profit == IF decision = "BUY" THEN current_price + atr * 2
                       ELSE current_price - atr * 2
        margin_required == SentinelMargin(size, current_price)
        failures == CriticalFailures(symbol, direction, size, current_price,
                       stop_loss, take_profit, SENTINEL_LEVERAGE, margin_required,
                       pm_positions, sl_current_equity,
                       IF today > sl_last_reset_date THEN sl_current_equity
                       ELSE sl_daily_starting_equity, sl_peak_equity)
        can_execute == CanExecute(CheckResults(failures,
                          CorrelationWarning(symbol, pm_positions)))
    IN  /\ position_lock = "free"
        /\ api_pc = "idle"
        /\ sl_total_checks < MaxChecks
        /\ total_positions_opened < MaxPMOpens
        /\ validate_trade(symbol, direction, size, current_price, stop_loss,
                          take_profit, SENTINEL_LEVERAGE, margin_required,
                          pm_positions)
        /\ IF ~can_execute
           THEN /\ sentinel_audit' = [outcome |-> "safety_rejected",
                                      row |-> "none", gate |-> gate]
                /\ UNCHANGED <<orders, pm_positions, pm_order,
                               total_positions_opened, monVars>>
           ELSE /\ orders' = orders \cup
                      {[source |-> "SENTINEL", symbol |-> symbol,
                        validated |-> can_execute]}
                /\ IF accepted
                   THEN /\ OpenTail(pm_positions, pm_order,
                              [symbol |-> symbol, side |-> side,
                               direction |-> direction, size |-> size,
                               entry_price |-> current_price,
                               stop_loss |-> stop_loss,
                               take_profit |-> take_profit,
                               leverage |-> SENTINEL_LEVERAGE,
                               margin_used |-> margin_required, atr |-> atr,
                               order_id |-> "open_order_id",
                               source |-> "SENTINEL"])
                        /\ sentinel_audit' = [outcome |-> "executed",
                                              row |-> "order_id", gate |-> gate]
                   ELSE /\ sentinel_audit' = [outcome |-> "order_failed",
                                              row |-> "error", gate |-> gate]
                        /\ UNCHANGED <<pm_positions, pm_order,
                                       total_positions_opened, monVars>>
        /\ UNCHANGED <<position_lock, mon_todo, mon_price, mon_to_close,
                       api_pc, api_args, total_positions_closed,
                       pm_last_close, pm_realized_today>>

\* One iteration of sentinel_loop that has decided BUY or SELL and passed its
\* confidence gates: reads the balance and sizes the trade (below 1 USDT it
\* writes a WAIT-INSUFFICIENT-BALANCE row to market_log and goes to the next
\* iteration), derives stop and target from the ATR, skips when the position
\* manager holds the symbol, and goes on to sentinel_place.
sentinel_trade(symbol, decision, current_price, atr, available_usdt, accepted, gate) ==
    IF available_usdt < 100
    THEN /\ sentinel_audit' = [outcome |-> "insufficient_balance",
                               row |-> "WAIT-INSUFFICIENT-BALANCE", gate |-> gate]
         /\ UNCHANGED <<orders, pm_realized_today, pmVars, monVars,
                        safetyVars>>
    ELSE IF position_lock = "free" /\ symbol \in DOMAIN pm_positions
    THEN /\ sentinel_audit' = [outcome |-> "existing_position",
                               row |-> "none", gate |-> gate]
         /\ UNCHANGED <<orders, pm_realized_today, pmVars, monVars,
                        safetyVars>>
    ELSE sentinel_place(symbol, decision, current_price, atr, available_usdt,
                        accepted, gate)

\* trigger_analysis, auto-execution branch: with auto_trading on and the
\* decision BUY or SELL above the confidence threshold it places a market
\* order of size "10" at once.
trigger_analysis(symbol, decision) ==
    /\ orders' = orders \cup
          {[source |-> "ANALYSIS", symbol |-> symbol, validated |-> FALSE]}
    /\ UNCHANGED <<pm_realized_today, sentinel_audit, safetyVars, pmVars,
                   monVars>>

\* Inputs of the order paths.
TradeSymbols == {"cmt_btcusdt"}
TradeDecisions == {"BUY", "SELL"}
TradePrices == {1000}
TradeAtrs == {2, 4}
TradeBalances == {0, 100000}
TradeExitPrices == {996, 1000}
TradeExchange == {"absent", "accepted"}
\* The size of a position registered by a caller other than the Sentinel loop.
DirectSizes == {8000}

tradeRest == <<institutional_running, active_trading_mode, inst_workers,
               ghostVars, rmVars, shutVars, brainVars, pendVars>>

TradeStart ==
    /\ start_sentinel
    /\ sentinel_running' # sentinel_running
    /\ UNCHANGED ghostVars

TradeLoopBegin ==
    \E t \in SentinelThreads : sentinel_loop_begin(t) /\ UNCHANGED ghostVars

\* A Sentinel loop thread that is inside an iteration runs its body: the
\* gates on the decision, then, when should_execute holds, sizing to the end
\* of the body. A confluence miss writes a WAIT-CONFLICT row to market_log.
SentinelIteration(symbol, gate, current_price, atr, available_usdt, accepted) ==
    /\ \E t \in SentinelThreads :
          /\ sentinel_threads[t] = "iterating"
          /\ sentinel_threads' = [sentinel_threads EXCEPT ![t] = "alive"]
    /\ IF should_execute(gate)
       THEN sentinel_trade(symbol, GateDecision(gate), current_price, atr,
                           available_usdt, accepted, gate)
       ELSE /\ sentinel_audit' =
                  IF /\ GateDecision(gate) \in {"BUY", "SELL"}
                     /\ ConfidenceGate(gate)
                     /\ is_safe(gate)
                  THEN [outcome |-> "confluence_miss", row |-> "WAIT-CONFLICT",
                        gate |-> gate]
                  ELSE [outcome |-> "gated", row |-> "none", gate |-> gate]
            /\ UNCHANGED <<orders, pm_realized_today, pmVars, monVars,
                           safetyVars>>

\* The gate inputs of the iterations that trade: the advisor says BUY or SELL
\* with confidence 75 at risk_tolerance 20, RSI 50, no strategy, classifier
\* not trained.
TradeGates ==
    {[strategy |-> "none", ai_decision |-> d, ai_confidence |-> 75,
      risk_tolerance |-> 20, rsi |-> 50, ml_dir |-> "untrained"] :
        d \in TradeDecisions}

TradeSentinel ==
    \E symbol \in TradeSymbols, gate \in TradeGates,
       current_price \in TradePrices, atr \in TradeAtrs,
       available_usdt \in TradeBalances, accepted \in BOOLEAN :
       /\ SentinelIteration(symbol, gate, current_price, atr,
                            available_usdt, accepted)
       /\ UNCHANGED <<sentinel_running, today, tradeRest>>

TradeAnalysis ==
    \E symbol \in TradeSymbols, decision \in TradeDecisions :
       /\ trigger_analysis(symbol, decision)
       /\ UNCHANGED <<sentinel_running, sentinel_threads, today, tradeRest>>

\* open_position called by another component, as its interface allows.
TradeOpenDirect ==
    \E symbol \in TradeSymbols, direction \in PMDirections,
       entry_price \in TradePrices, size \in DirectSizes :
       /\ pm_open_position(
             [symbol |-> symbol,
              side |-> IF direction = "LONG" THEN "buy" ELSE "sell",
              direction |-> direction, size |-> size,
              entry_price |-> entry_price,
              stop_loss |-> IF direction = "LONG" THEN entry_price - 3
                            ELSE entry_price + 3,
              take_profit |-> IF direction = "LONG" THEN entry_price + 4
                              ELSE entry_price - 4,
              leverage |-> SENTINEL_LEVERAGE,
              margin_used |-> (size * entry_price) \div SENTINEL_LEVERAGE,
              atr |-> 2, order_id |-> "open_order_id",
              source |-> "INSTITUTIONAL"])
       /\ UNCHANGED <<coordVars, ghostVars, shutVars, brainVars, pendVars, today, rmVars, safetyVars,
                      orders, sentinel_audit, pm_realized_today>>

\* close_position called at top level; the PnL it realizes is added to the
\* day's total.
TradeClose ==
    \E symbol \in TradeSymbols, exit_price \in TradeExitPrices,
       exchange \in TradeExchange :
       /\ symbol \in DOMAIN pm_positions
       /\ pm_close_position("api", symbol, exit_price, "Manual", exchange)
       /\ pm_realized_today' = pm_realized_today + pm_last_close'.pnl
       /\ UNCHANGED <<coordVars, ghostVars, shutVars, brainVars, pendVars, today, rmVars, safetyVars,
                      orders, sentinel_audit>>

TradeDay ==
    /\ DayRollover
    /\ pm_realized_today' = 0
    /\ UNCHANGED <<coordVars, ghostVars, shutVars, brainVars, pendVars, rmVars, safetyVars, orders,
                   sentinel_audit, pmVars, monVars>>

TradeMonitorBegin ==
    /\ monitor_loop_begin
    /\ UNCHANGED <<coordVars, ghostVars, shutVars, brainVars, pendVars, today, rmVars, safetyVars,
                   orders, sentinel_audit, pm_realized_today>>

TradeMonitorFetch ==
    \E price \in TradePrices :
       /\ monitor_loop_fetch(price)
       /\ UNCHANGED <<coordVars, ghostVars, shutVars, brainVars, pendVars, today, rmVars, safetyVars,
                      orders, sentinel_audit, pm_realized_today>>

NextTrade ==
    \/ TradeStart
    \/ TradeLoopBegin
    \/ TradeSentinel
    \/ TradeAnalysis
    \/ TradeOpenDirect
    \/ TradeClose
    \/ TradeDay
    \/ TradeMonitorBegin
    \/ TradeMonitorFetch

\* The Sentinel path alone, trading the symbols of one correlation group:
\* start_sentinel, the loop thread's iterations, the position monitor it
\* starts, and the days going by.
SentinelSymbols == {"cmt_btcusdt", "cmt_ethusdt"}
SentinelPrices == {1000, 4000}

SentinelCycle ==
    \E symbol \in SentinelSymbols, gate \in TradeGates,
       current_price \in SentinelPrices, atr \in TradeAtrs,
       available_usdt \in TradeBalances, accepted \in BOOLEAN :
       /\ SentinelIteration(symbol, gate, current_price, atr,
                            available_usdt, accepted)
       /\ UNCHANGED <<sentinel_running, today, tradeRest>>

NextSentinel ==
    \/ TradeStart
    \/ TradeLoopBegin
    \/ SentinelCycle
    \/ TradeDay
    \/ TradeMonitorBegin
    \/ TradeMonitorFetch

\* The Sentinel path on one symbol with every outcome of its gates.
\* The gate inputs of an iteration.
GateStrategies == {"none", "BUY", "SELL"}
GateAiDecisions == {"BUY", "WAIT"}
GateAiConfidences == {60, 75}
GateRiskTolerances == {20}
GateRsis == {25, 75}
GateMlDirs == {"untrained", "UP", "DOWN"}
SentinelGates ==
    [strategy : GateStrategies, ai_decision : GateAiDecisions,
     ai_confidence : GateAiConfidences, risk_tolerance : GateRiskTolerances,
     rsi : GateRsis, ml_dir : GateMlDirs]

GateCycle ==
    \E symbol \in TradeSymbols, gate \in SentinelGates,
       current_price \in TradePrices, atr \in TradeAtrs,
       available_usdt \in TradeBalances, accepted \in BOOLEAN :
       /\ SentinelIteration(symbol, gate, current_price, atr,
                            available_usdt, accepted)
       /\ UNCHANGED <<sentinel_running, today, tradeRest>>

NextGate ==
    \/ TradeStart
    \/ TradeLoopBegin
    \/ GateCycle
    \/ TradeMonitorBegin
    \/ TradeMonitorFetch

\* The Sentinel path with the iteration in two steps, as its threads
\* interleave: up to the existing-position check, and from validate_trade on.
raceRest == <<institutional_running, active_trading_mode, inst_workers,
              ghostVars, rmVars, shutVars, brainVars, cycle_pc, engine,
              auxVars>>

\* sentinel_loop, an iteration up to the existing-position check: the gates,
\* the balance, and position_manager.get_position(symbol) under the lock. An
\* iteration that passes them goes on with its locals.
sentinel_check(t, symbol, gate, current_price, atr, available_usdt) ==
    /\ sentinel_threads[t] = "iterating"
    /\ IF ~should_execute(gate)
       THEN /\ sentinel_audit' =
                  IF /\ GateDecision(gate) \in {"BUY", "SELL"}
                     /\ ConfidenceGate(gate)
                     /\ is_safe(gate)
                  THEN [outcome |-> "confluence_miss", row |-> "WAIT-CONFLICT",
                        gate |-> gate]
                  ELSE [outcome |-> "gated", row |-> "none", gate |-> gate]
            /\ sentinel_threads' = [sentinel_threads EXCEPT ![t] = "alive"]
            /\ UNCHANGED sentinel_pending
       ELSE IF available_usdt < 100
       THEN /\ sentinel_audit' = [outcome |-> "insufficient_balance",
                                  row |-> "WAIT-INSUFFICIENT-BALANCE",
                                  gate |-> gate]
            /\ sentinel_threads' = [sentinel_threads EXCEPT ![t] = "alive"]
            /\ UNCHANGED sentinel_pending
       ELSE /\ position_lock = "free"
            /\ IF symbol \in DOMAIN pm_positions
               THEN /\ sentinel_audit' = [outcome |-> "existing_position",
                                          row |-> "none", gate |-> gate]
                    /\ sentinel_threads' =
                          [sentinel_threads EXCEPT ![t] = "alive"]
                    /\ UNCHANGED sentinel_pending
               ELSE /\ sentinel_threads' =
                          [sentinel_threads EXCEPT ![t] = "checked"]
                    /\ sentinel_pending' =
                          [sentinel_pending EXCEPT ![t] =
                             [symbol |-> symbol, gate |-> gate,
                              current_price |-> current_price, atr |-> atr,
                              available_usdt |-> available_usdt]]
                    /\ UNCHANGED sentinel_audit
    /\ UNCHANGED <<orders, pm_realized_today, pmVars, monVars, safetyVars>>

\* sentinel_loop, the rest of the iteration: validate_trade, place_order,
\* open_position and the market_log row, with the locals of the iteration.
sentinel_submit(t, accepted) ==
    /\ sentinel_threads[t] = "checked"
    /\ LET p == sentinel_pending[t]
       IN  sentinel_place(p.symbol, GateDecision(p.gate), p.current_price,
                          p.atr, p.available_usdt, accepted, p.gate)
    /\ sentinel_threads' = [sentinel_threads EXCEPT ![t] = "alive"]
    /\ sentinel_pending' = [sentinel_pending EXCEPT ![t] = NoPending]

RaceStop ==
    /\ sentinel_running
    /\ stop_sentinel
    /\ UNCHANGED ghostVars

RaceLoopExit ==
    \E t \in SentinelThreads : sentinel_loop_exit(t) /\ UNCHANGED ghostVars

RaceCheck ==
    \E t \in SentinelThreads, symbol \in TradeSymbols, gate \in TradeGates,
       current_price \in TradePrices, atr \in TradeAtrs,
       available_usdt \in TradeBalances :
       /\ sentinel_check(t, symbol, gate, current_price, atr, available_usdt)
       /\ UNCHANGED <<sentinel_running, today, raceRest>>

RaceSubmit ==
    \E t \in SentinelThreads, accepted \in BOOLEAN :
       /\ sentinel_submit(t, accepted)
       /\ UNCHANGED <<sentinel_running, today, raceRest>>

NextRace ==
    \/ TradeStart
    \/ RaceStop
    \/ TradeLoopBegin
    \/ RaceLoopExit
    \/ RaceCheck
    \/ RaceSubmit
    \/ TradeMonitorBegin
    \/ TradeMonitorFetch

(***************************************************************************)
(* Advisor client, src/core/llm_brain.py.  get_trading_decision is called  *)
(* by the Sentinel loop thread and by the request threads of               *)
(* trigger_analysis; it takes no lock.                                     *)
(***************************************************************************)
MAX_DAILY_CALLS == 15
\* Threads that may be inside get_trading_decision at once.
MaxCallers == 2

BrainCallers == 1..MaxCallers

BrainInit ==
    /\ api_call_count = 0
    /\ quota_exceeded = FALSE
    /\ brain_cached = FALSE
    /\ brain_pc = [c \in BrainCallers |-> "idle"]
    /\ brain_sent = 0

brainRest == <<coordVars, ghostVars, monVars, pmVars, shutVars, safetyVars,
               tradeVars, rmVars, pendVars>>

\* get_trading_decision, up to the prompt: returns the fallback decision
\* during the quota cooldown, the cached result when use_cache finds a fresh
\* one, the fallback decision when api_call_count >= MAX_DAILY_CALLS;
\* otherwise the caller goes on to build the prompt (it may sleep up to 2
\* seconds first).
brain_check(c, use_cache) ==
    /\ brain_pc[c] = "idle"
    /\ ~quota_exceeded
    /\ ~(use_cache /\ brain_cached)
    /\ api_call_count < MAX_DAILY_CALLS
    /\ brain_pc' = [brain_pc EXCEPT ![c] = "prompt"]
    /\ UNCHANGED <<api_call_count, quota_exceeded, brain_cached, brain_sent>>

\* get_trading_decision, the try block: "api_call_count += 1" (taken as one
\* step), then generate_content is called and answers, fails on quota or
\* fails otherwise; the result is cached when use_cache is set.
brain_send(c, use_cache, answer) ==
    /\ brain_pc[c] = "prompt"
    /\ api_call_count' = api_call_count + 1
    /\ brain_sent' = brain_sent + 1
    /\ quota_exceeded' = IF answer = "ok" THEN FALSE
                         ELSE IF answer = "quota" THEN TRUE
                         ELSE quota_exceeded
    /\ brain_cached' = (use_cache \/ brain_cached)
    /\ brain_pc' = [brain_pc EXCEPT ![c] = "idle"]

\* Time goes by: the cached result gets older than CACHE_DURATION.
brain_cache_expire ==
    /\ brain_cached
    /\ brain_cached' = FALSE
    /\ UNCHANGED <<api_call_count, quota_exceeded, brain_pc, brain_sent>>

\* Time goes by: quota_exceeded_until is past.
brain_cooldown_end ==
    /\ quota_exceeded
    /\ quota_exceeded' = FALSE
    /\ UNCHANGED <<api_call_count, brain_cached, brain_pc, brain_sent>>

\* A new UTC day begins; nothing in llm_brain.py resets api_call_count.
brain_new_day ==
    /\ DayRollover
    /\ brain_sent' = 0
    /\ UNCHANGED <<api_call_count, quota_exceeded, brain_cached, brain_pc>>

BrainCheck ==
    \E c \in BrainCallers, use_cache \in BOOLEAN :
       brain_check(c, use_cache) /\ UNCHANGED <<today, brainRest>>

BrainSend ==
    \E c \in BrainCallers, use_cache \in BOOLEAN,
       answer \in {"ok", "quota", "error"} :
       brain_send(c, use_cache, answer) /\ UNCHANGED <<today, brainRest>>

BrainCacheExpire == brain_cache_expire /\ UNCHANGED <<today, brainRest>>

BrainCooldownEnd == brain_cooldown_end /\ UNCHANGED <<today, brainRest>>

BrainDay == brain_new_day /\ UNCHANGED brainRest

NextBrain ==
    \/ BrainCheck
    \/ BrainSend
    \/ BrainCacheExpire
    \/ BrainCooldownEnd
    \/ BrainDay

\* ---------------------------------------------------------------------
\* The execution engine, src/execution/execution_engine.py, on the exchange
\* client the orchestrator hands it, src/core/weex_api.py.
\* ---------------------------------------------------------------------

MaxEngineCalls == 3
MAX_RETRIES == 3                         \* execution_engine.py:61
EngineSides == {"buy", "sell"}
EngineSizes == {1, 2, 3}
EngineSymbols == {"cmt_btcusdt", "cmt_ethusdt"}
\* What the exchange answers to an order that reaches it: the success code
\* "00000" with the order's data, or another code.
ExchangeAnswers == {"accepted", "rejected"}

\* The parameters of WeexClient.execute_order, and the keyword arguments
\* execute_market_order calls it with.
ExecuteOrderParameters == {"side", "size", "symbol"}
EngineKeywords == {"side", "size", "symbol", "order_type"}

\* WeexClient.execute_order: a keyword it does not declare raises TypeError
\* before its body runs; otherwise place_order sends the order and returns
\* the exchange's answer.
execute_order(keywords, answer) ==
    IF keywords \subseteq ExecuteOrderParameters
    THEN [raised |-> FALSE, sent |-> TRUE, response |-> answer]
    ELSE [raised |-> TRUE, sent |-> FALSE, response |-> "TypeError"]

\* check_spread on a client without get_orderbook (WeexClient has none):
\* (True, 0.0, 0.0).
check_spread == [spread_ok |-> TRUE, bid |-> 0, ask |-> 0]

EngineInit ==
    [pc |-> "idle", side |-> "none", size |-> 0, symbol |-> "none",
     expected_price |-> 0, max_retries |-> MAX_RETRIES, attempt |-> 0,
     submitted |-> 0, accepted |-> FALSE, resubmitted |-> FALSE,
     success |-> FALSE, total_orders |-> 0, successful_orders |-> 0,
     failed_orders_count |-> 0]

\* execute_market_order up to the loop: max_retries defaults to MAX_RETRIES
\* (no caller passes it), expected_price comes from check_spread. submitted,
\* accepted and resubmitted are history of this call: the orders that reached
\* the exchange, whether one was accepted, and whether one was sent after an
\* accepted one.
execute_market_order_begin(side, size, symbol) ==
    /\ engine.pc \in {"idle", "done"}
    /\ engine.total_orders < MaxEngineCalls
    /\ engine' = [engine EXCEPT
          !.pc = "loop", !.side = side, !.size = size, !.symbol = symbol,
          !.max_retries = MAX_RETRIES,
          !.expected_price =
              IF side = "buy" THEN check_spread.ask ELSE check_spread.bid,
          !.attempt = 0, !.submitted = 0, !.accepted = FALSE,
          !.resubmitted = FALSE, !.success = FALSE]

\* One iteration of the retry loop. An exception anywhere in the try block
\* (the call itself, or the slippage division by an expected_price of 0
\* after an accepted answer) and an answer with another code both retry
\* while attempt < max_retries - 1 and return the failure otherwise.
execute_market_order_attempt(answer) ==
    LET call == execute_order(EngineKeywords, answer)
        is_accepted == ~call.raised /\ call.response = "accepted"
        raised == call.raised \/ (is_accepted /\ engine.expected_price = 0)
        failed == raised \/ ~is_accepted
        sent == IF call.sent THEN 1 ELSE 0
    IN  /\ engine.pc = "loop"
        /\ engine' = [engine EXCEPT
              !.submitted = @ + sent,
              !.resubmitted = @ \/ (call.sent /\ engine.accepted),
              !.accepted = @ \/ is_accepted,
              !.attempt =
                  IF failed /\ engine.attempt < engine.max_retries - 1
                  THEN @ + 1 ELSE @,
              !.pc =
                  IF failed /\ engine.attempt < engine.max_retries - 1
                  THEN "loop" ELSE "done",
              !.success = ~failed,
              !.total_orders =
                  IF failed /\ engine.attempt < engine.max_retries - 1
                  THEN @ ELSE @ + 1,
              !.successful_orders = IF failed THEN @ ELSE @ + 1,
              !.failed_orders_count =
                  IF failed /\ ~(engine.attempt < engine.max_retries - 1)
                  THEN @ + 1 ELSE @]

engineRest == <<coordVars, ghostVars, monVars, pmVars, shutVars, safetyVars,
                tradeVars, brainVars, rmVars, today, sentinel_pending,
                cycle_pc, auxVars>>

EngineBegin ==
    /\ \E side \in EngineSides, size \in EngineSizes, symbol \in EngineSymbols :
          execute_market_order_begin(side, size, symbol)
    /\ UNCHANGED engineRest

EngineAttempt ==
    /\ \E answer \in ExchangeAnswers : execute_market_order_attempt(answer)
    /\ UNCHANGED engineRest

NextEngine ==
    \/ EngineBegin
    \/ EngineAttempt

\* ---------------------------------------------------------------------
\* The orchestrator's scan, src/trading_orchestrator.py: score_asset and
\* select_best_opportunity on the signals of
\* src/strategy/intraday_engine.py. Scores and strengths are kept as
\* integers: a strength in tenths, a final score in two-hundredths.
\* ---------------------------------------------------------------------

\* ENABLED_SYMBOLS, in scanning order (the first two of the eight).
ENABLED_SYMBOLS == <<"cmt_btcusdt", "cmt_ethusdt">>
\* MIN_SIGNAL_STRENGTH = 25.0, in two-hundredths.
MIN_SIGNAL_STRENGTH_200 == 5000

\* What the detectors of generate_signal read from the candles: direction
\* and score of breakout, momentum and snapback, the compression flag and
\* score, and the volume_confirmation and trend_strength factors.
ScanMarkets ==
    { [breakout_dir |-> "none", breakout |-> 0, momentum_dir |-> "NEUTRAL",
       momentum |-> 0, snapback_dir |-> "none", snapback |-> 0,
       is_compressed |-> FALSE, compression |-> 0, volume |-> 0, trend |-> 0],
      [breakout_dir |-> "none", breakout |-> 0, momentum_dir |-> "BULLISH",
       momentum |-> 100, snapback_dir |-> "none", snapback |-> 0,
       is_compressed |-> FALSE, compression |-> 0, volume |-> 0, trend |-> 100],
      [breakout_dir |-> "none", breakout |-> 0, momentum_dir |-> "BEARISH",
       momentum |-> 60, snapback_dir |-> "none", snapback |-> 0,
       is_compressed |-> FALSE, compression |-> 20, volume |-> 40, trend |-> 40],
      [breakout_dir |-> "LONG", breakout |-> 80, momentum_dir |-> "BULLISH",
       momentum |-> 60, snapback_dir |-> "none", snapback |-> 0,
       is_compressed |-> TRUE, compression |-> 50, volume |-> 0, trend |-> 60],
      [breakout_dir |-> "none", breakout |-> 0, momentum_dir |-> "NEUTRAL",
       momentum |-> 0, snapback_dir |-> "SHORT", snapback |-> 70,
       is_compressed |-> FALSE, compression |-> 0, volume |-> 0, trend |-> 20] }

\* What the regime detector returns for the cycle: the regime, its
\* confidence and the signal kinds its filter enables.
ScanRegimes ==
    { [regime |-> "trending", confidence |-> 80,
       allowed |-> {"trend_following", "breakout"}],
      [regime |-> "mean_reverting", confidence |-> 60,
       allowed |-> {"mean_reversion", "liquidation_snapback"}],
      [regime |-> "chaotic", confidence |-> 100, allowed |-> {}] }

\* generate_signal, the aggregation: breakout first, then momentum, then
\* snapback, each above 50; strength in tenths, capped at 100.
generate_signal(m) ==
    IF m.breakout_dir # "none" /\ m.breakout > 50
    THEN [signal |-> m.breakout_dir, signal_type |-> "breakout",
          strength10 |-> Min2(5 * m.breakout + 3 * m.momentum
                + (IF m.is_compressed THEN 2 * m.compression ELSE 0), 1000)]
    ELSE IF m.momentum_dir # "NEUTRAL" /\ m.momentum > 50
    THEN [signal |-> IF m.momentum_dir = "BULLISH" THEN "LONG" ELSE "SHORT",
          signal_type |-> "trend_following",
          strength10 |-> Min2(5 * m.momentum + 3 * m.trend + 2 * m.volume,
                              1000)]
    ELSE IF m.snapback_dir # "none" /\ m.snapback > 50
    THEN [signal |-> m.snapback_dir, signal_type |-> "liquidation_snapback",
          strength10 |-> Min2(10 * m.snapback, 1000)]
    ELSE [signal |-> "NEUTRAL", signal_type |-> "none", strength10 |-> 0]

\* regime_filters.get(signal_type, False) for a LONG or SHORT signal.
signal_allowed(sig, regime) ==
    /\ sig.signal \in {"LONG", "SHORT"}
    /\ sig.signal_type \in regime.allowed

\* The strength score_asset goes on with: 0.0 when the signal is not allowed.
filtered_strength(sig, regime) ==
    IF signal_allowed(sig, regime) THEN sig.strength10 ELSE 0

\* score_asset: the composite 0.30 momentum + 0.25 trend_strength
\* + 0.15 volatility_compression - 0.05 (100 - regime confidence), funding
\* and orderbook factors being absent, and final_score = 0.5 score
\* + 0.5 strength, in two-hundredths.
score_asset(symbol, m, regime) ==
    LET sig == generate_signal(m)
    IN  [symbol |-> symbol,
         score200 |-> 30 * m.momentum + 25 * m.trend + 15 * m.compression
                      - 5 * (100 - regime.confidence)
                      + 10 * filtered_strength(sig, regime),
         signal |-> sig.signal,
         signal_type |-> sig.signal_type,
         signal_allowed |-> signal_allowed(sig, regime)]

NoAsset == [symbol |-> "none"]

ScanInit == [pc |-> "idle", next |-> 1, asset_scores |-> <<>>,
             returned |-> NoAsset]

\* select_best_opportunity, the loop that passes an asset: score at least
\* MIN_SIGNAL_STRENGTH, signal LONG or SHORT, can_open_position.
passes_filters(asset) ==
    /\ asset.score200 >= MIN_SIGNAL_STRENGTH_200
    /\ asset.signal \in {"LONG", "SHORT"}
    /\ can_open_position(asset.symbol)

\* The first asset of sorted(asset_scores.values(), key=score, reverse=True)
\* that passes: the sort is stable, so equal scores keep the scanning order.
best_of(asset_scores) ==
    LET ok == {i \in DOMAIN asset_scores : passes_filters(asset_scores[i])}
    IN  IF ok = {} THEN NoAsset
        ELSE asset_scores[CHOOSE i \in ok : \A j \in ok :
                \/ asset_scores[i].score200 > asset_scores[j].score200
                \/ /\ asset_scores[i].score200 = asset_scores[j].score200
                   /\ i <= j]

scanRest == <<coordVars, ghostVars, monVars, pmVars, shutVars, safetyVars,
              tradeVars, brainVars, rmVars, today, sentinel_pending,
              cycle_pc, engine, rule_cycle, sizing, fallback>>

\* select_best_opportunity starts: asset_scores.clear().
ScanBegin ==
    /\ scan.pc \in {"idle", "returned"}
    /\ scan' = [pc |-> "scoring", next |-> 1, asset_scores |-> <<>>,
                returned |-> NoAsset]
    /\ UNCHANGED scanRest

\* The scoring loop, one symbol: an asset is kept when its score is above 0.
ScanScore ==
    /\ scan.pc = "scoring"
    /\ scan.next <= Len(ENABLED_SYMBOLS)
    /\ \E m \in ScanMarkets, regime \in ScanRegimes :
          LET asset == score_asset(ENABLED_SYMBOLS[scan.next], m, regime)
          IN  scan' = [scan EXCEPT
                 !.next = @ + 1,
                 !.asset_scores =
                     IF asset.score200 > 0 THEN Append(@, asset) ELSE @]
    /\ UNCHANGED scanRest

\* The rest of select_best_opportunity: None without scores, else the first
\* sorted asset that passes.
ScanReturn ==
    /\ scan.pc = "scoring"
    /\ scan.next > Len(ENABLED_SYMBOLS)
    /\ scan' = [scan EXCEPT !.pc = "returned",
                            !.returned = best_of(scan.asset_scores)]
    /\ UNCHANGED scanRest

NextScan ==
    \/ ScanBegin
    \/ ScanScore
    \/ ScanReturn

\* ---------------------------------------------------------------------
\* The strategy step of a Sentinel iteration: evaluate_strategies of
\* src/core/strategy_evaluator.py and the choice between the strategy's
\* decision and the advisor's, src/api_server.py.
\* ---------------------------------------------------------------------

\* Rows of the strategies table: the logic text and the action. The table is
\* filled by init_db (db_manager.py:144-150) and by the strategy-creation
\* endpoint (api_server.py:2086-2099), which write BUY or SELL only; the last
\* row's logic names a variable the evaluator does not know.
StrategyRows ==
    { [logic |-> "rsi < 30", action |-> "BUY"],
      [logic |-> "rsi > 70", action |-> "SELL"],
      [logic |-> "price > ema_20 and trend == 'BULLISH'", action |-> "BUY"],
      [logic |-> "price < ema_20 and trend == 'BEARISH'", action |-> "SELL"],
      [logic |-> "macd > 0", action |-> "SELL"] }
MaxActiveStrategies == 2
\* The rows "WHERE is_active = TRUE", in the order the query returns them.
StrategyTables ==
    UNION {[1..n -> StrategyRows] : n \in 0..MaxActiveStrategies}

\* market_state as analyze_market_structure returns it (the fields the rows
\* above read).
RuleMarkets ==
    [rsi : {25, 50, 75}, price : {100}, ema_20 : {99, 101},
     trend : {"BULLISH", "BEARISH", "NEUTRAL"}]
\* What the advisor answers when it is asked.
RuleAdvisorAnswers ==
    [decision : {"BUY", "WAIT"}, confidence : {60, 75}]

\* evaluate_logic(logic, market_data): eval of the logic text on the market
\* fields; any exception (an unknown name) gives False.
evaluate_logic(logic, m) ==
    IF logic = "rsi < 30" THEN m.rsi < 30
    ELSE IF logic = "rsi > 70" THEN m.rsi > 70
    ELSE IF logic = "price > ema_20 and trend == 'BULLISH'"
    THEN m.price > m.ema_20 /\ m.trend = "BULLISH"
    ELSE IF logic = "price < ema_20 and trend == 'BEARISH'"
    THEN m.price < m.ema_20 /\ m.trend = "BEARISH"
    ELSE FALSE

\* evaluate_strategies(market_data): nothing without a database connection,
\* else the active rows whose logic holds, in table order.
evaluate_strategies(db_ok, table, m) ==
    IF ~db_ok THEN << >>
    ELSE LET holds(row) == evaluate_logic(row.logic, m)
         IN  SelectSeq(table, holds)

strategy_decision_Last(triggered) ==
    IF triggered = << >> THEN "none" ELSE triggered[Len(triggered)].action

\* strategy_decision: the action of the first triggered strategy; "none"
\* stands for None.
strategy_decision(triggered) ==
    IF triggered = << >> THEN "none" ELSE triggered[1].action

\* "if not strategy_decision or strategy_decision == 'WAIT'": the iteration
\* calls get_trading_decision.
AdvisorConsulted(g) ==
    g.strategy \in {"none", "WAIT"}

NoRuleCycle == [evaluated |-> FALSE]

rulesRest == <<coordVars, ghostVars, monVars, pmVars, shutVars, safetyVars,
               tradeVars, brainVars, rmVars, today, sentinel_pending,
               cycle_pc, engine, scan, sizing, fallback>>

\* Steps 5 and 6 of a sentinel_loop iteration: the triggered strategies, then
\* the decision and confidence the iteration goes on with.
RulesCycle ==
    /\ ~rule_cycle.evaluated
    /\ \E db_ok \in BOOLEAN, table \in StrategyTables, m \in RuleMarkets,
          ai \in RuleAdvisorAnswers :
          LET triggered == evaluate_strategies(db_ok, table, m)
              g == [strategy |-> strategy_decision(triggered),
                    ai_decision |-> ai.decision,
                    ai_confidence |-> ai.confidence]
          IN  rule_cycle' =
                 [evaluated |-> TRUE, db_ok |-> db_ok, table |-> table,
                  market |-> m, decision |-> GateDecision(g),
                  confidence |-> GateConfidence(g),
                  advisor_called |-> AdvisorConsulted(g)]
    /\ UNCHANGED rulesRest

\* The iteration ends and the loop sleeps: its locals are gone.
RulesIterationEnd ==
    /\ rule_cycle.evaluated
    /\ rule_cycle' = NoRuleCycle
    /\ UNCHANGED rulesRest

NextRules ==
    \/ RulesCycle
    \/ RulesIterationEnd

\* ---------------------------------------------------------------------
\* RiskManager.calculate_position_size, src/risk/risk_manager.py, called on
\* its own. Sizes are in thousandths of a contract, stop distances in
\* tenths of a price unit.
\* ---------------------------------------------------------------------

\* The names bound in the module risk_manager when a method runs: its
\* imports (lines 5-10) and its classes.
RiskManagerGlobals ==
    {"pd", "np", "Dict", "Optional", "Tuple", "List", "dataclass", "datetime",
     "timedelta", "Enum", "PositionState", "PositionRisk", "PortfolioRisk",
     "RiskManager"}

SizingEntryPrices == {1000, 2000}
SizingStopDistances == {2, 15, 40}
SizingAtrs == {0, 1, 10}
SizingDirections == {"LONG", "SHORT"}

\* calculate_position_size(entry_price, stop_loss, atr, symbol) after
\* reset_daily_tracking(): can_open_position, then the first logging
\* statement, which reads the global name logger; then the arithmetic, with
\* the stop distance clamped to [1.3 atr, 1.8 atr], the size cut to the
\* available margin, and the exposure limit.
calculate_position_size(entry_price, stop_loss, atr, symbol, equity, start, peak, positions) ==
    LET can_trade == RMReasons(symbol, equity, start, peak, positions) = {}
        raw10 == 10 * Abs(entry_price - stop_loss)
        stop10 == IF raw10 < 13 * atr THEN 13 * atr
                  ELSE IF raw10 > 18 * atr THEN 18 * atr ELSE raw10
        size0 == (125 * equity) \div stop10
        margin0 == (size0 * entry_price) \div (1000 * RM_MAX_LEVERAGE)
        used_margin == RMUsedMargin(positions)
        available_margin == equity - used_margin
        cut == margin0 > available_margin
        size1 == IF cut
                 THEN (available_margin * RM_MAX_LEVERAGE * 1000) \div entry_price
                 ELSE size0
        margin1 == IF cut THEN available_margin ELSE margin0
        refused == [raised |-> "none", size |-> 0, margin |-> 0,
                    can_trade |-> FALSE]
    IN  IF "logger" \notin RiskManagerGlobals
        THEN [raised |-> "NameError", size |-> 0, margin |-> 0,
              can_trade |-> FALSE]
        ELSE IF ~can_trade THEN refused
        ELSE IF stop10 = 0
        THEN [raised |-> "ZeroDivisionError", size |-> 0, margin |-> 0,
              can_trade |-> FALSE]
        ELSE IF (used_margin + margin1) * 100 > RM_MAX_EXPOSURE_PCT * equity
        THEN refused
        ELSE [raised |-> "none", size |-> size1, margin |-> margin1,
              can_trade |-> TRUE]

NoSizing == [called |-> FALSE]

sizingRest == <<coordVars, ghostVars, monVars, pmVars, shutVars, safetyVars,
                tradeVars, brainVars, sentinel_pending, cycle_pc, engine,
                scan, rule_cycle, fallback>>

SizingDay ==
    /\ DayRollover
    /\ UNCHANGED <<rmVars, sizing, sizingRest>>

\* A call: reset_daily_tracking() first, then the rest; the record keeps the
\* arguments, the state the call computed on and how it ended.
SizingCall ==
    /\ ~sizing.called
    /\ UNCHANGED <<rm_current_equity, rm_peak_equity, rm_positions, rm_closed>>
    /\ \E symbol \in RMSymbols, direction \in SizingDirections,
          entry_price \in SizingEntryPrices, d \in SizingStopDistances,
          atr \in SizingAtrs :
          LET reset == ResetDue(rm_last_reset_date)
              start == IF reset THEN rm_current_equity
                       ELSE rm_daily_starting_equity
              stop_loss == IF direction = "LONG" THEN entry_price - d
                           ELSE entry_price + d
              result == calculate_position_size(entry_price, stop_loss, atr,
                           symbol, rm_current_equity, start, rm_peak_equity,
                           rm_positions)
          IN  /\ rm_daily_starting_equity' = start
              /\ rm_daily_pnl' = IF reset THEN 0 ELSE rm_daily_pnl
              /\ rm_last_reset_date' =
                    IF reset THEN today ELSE rm_last_reset_date
              /\ rm_last_op' =
                    [op |-> "size",
                     ok |-> RMReasons(symbol, rm_current_equity, start,
                                      rm_peak_equity, rm_positions) = {},
                     latched |-> rm_kill_latched, pos_changed |-> FALSE,
                     stale_block |-> StaleBlock(rm_current_equity, start,
                                                rm_last_reset_date')]
              /\ sizing' = [called |-> TRUE, symbol |-> symbol,
                            entry_price |-> entry_price,
                            stop_loss |-> stop_loss, atr |-> atr,
                            equity |-> rm_current_equity,
                            used_margin |-> RMUsedMargin(rm_positions),
                            kill_switch |->
                               \/ DailyLossBreached(rm_current_equity, start)
                               \/ DrawdownBreached(rm_current_equity,
                                                   rm_peak_equity),
                            result |-> result]
              /\ RMLatch(reset)
    /\ UNCHANGED <<today, sizingRest>>

\* The caller has taken the result (or caught the exception).
SizingDone ==
    /\ sizing.called
    /\ sizing' = NoSizing
    /\ UNCHANGED <<today, rmVars, sizingRest>>

NextSizing ==
    \/ SizingDay
    \/ SizingCall
    \/ SizingDone
\* ---------------------------------------------------------------------------
\* ExecutionSafetyLayer on its own: update_equity, validate_trade and the date.
\* ---------------------------------------------------------------------------
\* Equities handed to update_equity, in hundredths: 3.1% below the initial
\* equity, exactly 3% below it, and the initial equity itself.
SafetyEquities == {969000, 970000, SL_INITIAL_EQUITY}
SafetySymbols == {"cmt_btcusdt", "cmt_pepeusdt"}
SafetySizes == {1}
\* (entry_price, stop_loss, take_profit): R:R 2.0 and 0.4.
SafetyPrices == {<<1000, 950, 1100>>, <<1000, 950, 1020>>}
SafetyLeverages == {5}
SafetyMargins == {20000, 500000}
SafetyPositions ==
    {[s \in {} |-> [margin_used |-> 0]],
     [s \in {"cmt_ethusdt"} |-> [margin_used |-> 100000]]}

safetyRest == <<coordVars, ghostVars, monVars, pmVars, shutVars, tradeVars,
                brainVars, rmVars, pendVars>>

SafetyDay ==
    /\ today < MaxDay
    /\ today' = today + 1
    /\ UNCHANGED <<safetyVars, safetyRest>>

\* update_equity(new_equity)
update_equity(new_equity) ==
    /\ sl_current_equity' = new_equity
    /\ sl_peak_equity' = Max2(sl_peak_equity, new_equity)
    /\ UNCHANGED <<sl_daily_starting_equity, sl_last_reset_date,
                   sl_total_checks, sl_total_rejections, sl_last_check,
                   sl_rejection_reasons>>

SafetyUpdateEquity ==
    \E new_equity \in SafetyEquities :
       /\ new_equity # sl_current_equity
       /\ update_equity(new_equity)
       /\ UNCHANGED <<today, safetyRest>>

SafetyValidate ==
    /\ sl_total_checks < MaxChecks
    /\ \E symbol \in SafetySymbols, direction \in {"LONG", "SHORT"},
          size \in SafetySizes, prices \in SafetyPrices,
          leverage \in SafetyLeverages, margin_required \in SafetyMargins,
          current_positions \in SafetyPositions :
          validate_trade(symbol, direction, size, prices[1], prices[2],
                         prices[3], leverage, margin_required, current_positions)
    /\ UNCHANGED <<today, safetyRest>>

NextSafety == SafetyDay \/ SafetyUpdateEquity \/ SafetyValidate
\* ---------------------------------------------------------------------------
\* get_fallback_decision, the technical decision used when the advisor is not.
\* ---------------------------------------------------------------------------
\* market_data['rsi'] as analyze_market_structure leaves it: round(rsi, 2), in
\* hundredths, or NaN when the series is too short for the indicator.
FallbackRSIs ==
    {[nan |-> TRUE, value |-> 0]} \cup
    {[nan |-> FALSE, value |-> v] :
        v \in {0, 2000, 2499, 2500, 2501, 3000, 3001, 4000, 4999, 5000, 5001,
               6000, 6999, 7000, 7001, 7500, 7501, 10000}}
FallbackTrends == {"BULLISH", "BEARISH", "NEUTRAL"}

\* rsi < x and rsi > x for a whole number x; every comparison with NaN is False.
RsiBelow(rsi, x) == ~rsi.nan /\ rsi.value < x * 100
RsiAbove(rsi, x) == ~rsi.nan /\ rsi.value > x * 100

get_fallback_decision_TrendOnly(market_data) ==
    LET rsi == market_data.rsi
        trend == market_data.trend
    IN  IF trend = "BULLISH" /\ RsiBelow(rsi, 70) /\ RsiAbove(rsi, 30)
        THEN [decision |-> "BUY", confidence |-> 70]
        ELSE IF trend = "BEARISH" /\ RsiAbove(rsi, 30) /\ RsiBelow(rsi, 70)
        THEN [decision |-> "SELL", confidence |-> 70]
        ELSE IF RsiAbove(rsi, 75) THEN [decision |-> "SELL", confidence |-> 65]
        ELSE IF RsiBelow(rsi, 25) THEN [decision |-> "BUY", confidence |-> 65]
        ELSE [decision |-> "WAIT", confidence |-> 30]
\* get_fallback_decision(market_data): decision and int(confidence).
get_fallback_decision(market_data) ==
    LET rsi == market_data.rsi
        trend == market_data.trend
        volume_spike == market_data.volume_spike
    IN  IF trend = "BULLISH" /\ RsiBelow(rsi, 70) /\ RsiAbove(rsi, 30)
        THEN IF RsiBelow(rsi, 50)
             THEN [decision |-> "BUY",
                   confidence |-> Min2(7500, 5000 + (5000 - rsi.value)) \div 100]
             ELSE IF volume_spike
             THEN [decision |-> "BUY", confidence |-> 70]
             ELSE [decision |-> "WAIT", confidence |-> 40]
        ELSE IF trend = "BEARISH" /\ RsiAbove(rsi, 30) /\ RsiBelow(rsi, 70)
        THEN IF RsiAbove(rsi, 50)
             THEN [decision |-> "SELL",
                   confidence |-> Min2(7500, 5000 + (rsi.value - 5000)) \div 100]
             ELSE IF volume_spike
             THEN [decision |-> "SELL", confidence |-> 70]
             ELSE [decision |-> "WAIT", confidence |-> 40]
        ELSE IF RsiAbove(rsi, 75) THEN [decision |-> "SELL", confidence |-> 65]
        ELSE IF RsiBelow(rsi, 25) THEN [decision |-> "BUY", confidence |-> 65]
        ELSE [decision |-> "WAIT", confidence |-> 30]

NoFallback == [called |-> FALSE]

fallbackRest == <<coordVars, ghostVars, monVars, pmVars, shutVars, safetyVars,
                  tradeVars, brainVars, rmVars, today, sentinel_pending,
                  cycle_pc, engine, scan, rule_cycle, sizing>>

\* One call of get_fallback_decision on the market data of one analysis.
FallbackCall ==
    /\ ~fallback.called
    /\ \E trend \in FallbackTrends, rsi \in FallbackRSIs,
          volume_spike \in BOOLEAN :
          LET market_data == [trend |-> trend, rsi |-> rsi,
                              volume_spike |-> volume_spike]
          IN  fallback' = [called |-> TRUE, market_data |-> market_data,
                           result |-> get_fallback_decision(market_data)]
    /\ UNCHANGED fallbackRest

\* The caller takes the decision.
FallbackDone ==
    /\ fallback.called
    /\ fallback' = NoFallback
    /\ UNCHANGED fallbackRest

NextFallback == FallbackCall \/ FallbackDone

Init ==
    /\ CoordInit
    /\ PMInit
    /\ SafetyInit
    /\ orders = {}
    /\ pm_realized_today = 0
    /\ sentinel_audit = NoAudit
    /\ sentinel_pending = [t \in SentinelThreads |-> NoPending]
    /\ cycle_pc = "idle"
    /\ engine = EngineInit
    /\ scan = ScanInit
    /\ rule_cycle = NoRuleCycle
    /\ sizing = NoSizing
    /\ fallback = NoFallback
    /\ today = 0
    /\ RMInit
    /\ BrainInit

SpecCoord == Init /\ [][NextCoord]_vars
SpecRM == Init /\ [][NextRM]_vars
SpecCycle == Init /\ [][NextCycle]_vars
SpecPM == Init /\ [][NextPM]_vars
FairSpecPM == SpecPM /\ PMFairness
SpecTrade == Init /\ [][NextTrade]_vars
SpecSentinel == Init /\ [][NextSentinel]_vars
SpecGate == Init /\ [][NextGate]_vars
SpecRace == Init /\ [][NextRace]_vars
SpecBrain == Init /\ [][NextBrain]_vars
SpecShutdown == Init /\ [][NextShutdown]_vars
SpecEngine == Init /\ [][NextEngine]_vars
SpecScan == Init /\ [][NextScan]_vars
SpecRules == Init /\ [][NextRules]_vars
SpecSizing == Init /\ [][NextSizing]_vars
SpecSafety == Init /\ [][NextSafety]_vars
SpecFallback == Init /\ [][NextFallback]_vars

\* C1: Sentinel and Institutional are never both marked active, under any
\* interleaving of the four start/stop calls and the worker's own writes.
C1_ModeExclusion == ~(sentinel_running /\ institutional_running)

\* C2: in the risk manager, once the day's loss has gone below -3% of
\* daily_starting_equity, no open_position call succeeds (it returns False and
\* leaves the position map as it was), whatever opens, updates and closes
\* follow, until reset_daily_tracking resets on a day rollover.
C2_KillSwitchClosure ==
    (rm_last_op.op = "open" /\ rm_last_op.latched)
        => (~rm_last_op.ok /\ ~rm_last_op.pos_changed)
\* An open was attempted, and refused, while the breach was remembered.
C2_Witness ==
    /\ rm_last_op.op = "open"
    /\ rm_last_op.latched
    /\ ~rm_last_op.ok
    /\ rm_closed >= 1

\* What a position has gained per unit at its current price, the trailing
\* level its extremes give, and "strictly better" for its direction.
Profit(pos) ==
    IF pos.direction = "LONG" THEN pos.current_price - pos.entry_price
    ELSE pos.entry_price - pos.current_price
TrailingLevel(pos) ==
    IF pos.direction = "LONG" THEN pos.highest_price - 2 * pos.atr
    ELSE pos.lowest_price + 2 * pos.atr
StrictlyBetter(pos, x, y) == IF pos.direction = "LONG" THEN x > y ELSE x < y
InitialR(pos) == Abs(pos.entry_price - pos.initial_stop)
\* The symbols whose position is the same one before and after the step.
Surviving == IF total_positions_opened' = total_positions_opened
             THEN DOMAIN pm_positions \cap DOMAIN pm_positions' ELSE {}

\* C3: once the positions closed by close_position have realized, within the
\* day, a loss of more than 3% of the daily starting equity, validate_trade
\* returns can_execute = false.
C3_KillSwitchAfterLoss ==
    (/\ sl_last_check.valid
     /\ sl_last_check.realized_today * 100
           < (0 - 3) * sl_last_check.daily_starting_equity)
        => ~sl_last_check.can_execute

\* C4: while the monitor runs, a fetched price at or beyond the stop-loss or
\* the take-profit of the position being visited leads to that position being
\* closed and removed from the map.
C4_ExitTouchCloses ==
    \A s \in PMSymbols :
       (/\ monitor_running
        /\ mon_pc = "update_position_price"
        /\ mon_todo # << >>
        /\ Head(mon_todo) = s
        /\ s \in DOMAIN pm_positions
        /\ IF pm_positions[s].direction = "LONG"
           THEN \/ mon_price <= pm_positions[s].stop_loss
                \/ mon_price >= pm_positions[s].take_profit
           ELSE \/ mon_price >= pm_positions[s].stop_loss
                \/ mon_price <= pm_positions[s].take_profit)
       ~> (s \notin DOMAIN pm_positions)

\* C5: an open_position call for a symbol that is already in the map
\* terminates.
C5_ReplaceTerminates == (api_pc = "open_position") ~> (api_pc = "idle")

\* C6: every order that opens a position was submitted after validate_trade
\* had returned can_execute = true for it.
C6_OrdersValidated == \A o \in orders : o.validated

\* C7: when close_position runs for a held position and the exchange's
\* position list does not contain the symbol, no order is submitted, the
\* position is removed, and the saved record has the PnL at the supplied
\* price and carries an ExternallyClosed annotation.
C7_ExternallyClosed ==
    (pm_last_close.symbol # "none" /\ pm_last_close.exchange = "absent")
        => /\ ~pm_last_close.order_submitted
           /\ pm_last_close.removed
           /\ pm_last_close.pnl =
                 (IF pm_last_close.direction = "LONG"
                  THEN pm_last_close.price - pm_last_close.entry_price
                  ELSE pm_last_close.entry_price - pm_last_close.price)
                    * pm_last_close.size
           /\ "ExternallyClosed" \in pm_last_close.notes

\* C8: over price updates of an open position, stop_loss never moves in the
\* losing direction: it does not decrease for a Long nor increase for a Short.
C8_StopMonotonic ==
    [][\A s \in Surviving :
          IF pm_positions[s].direction = "LONG"
          THEN pm_positions'[s].stop_loss >= pm_positions[s].stop_loss
          ELSE pm_positions'[s].stop_loss <= pm_positions[s].stop_loss]_vars
\* A Long whose stop has trailed up and whose price has since come back from
\* its high, and a Short mirrored.
C8_Witness ==
    /\ \E s \in DOMAIN pm_positions :
          /\ pm_positions[s].direction = "LONG"
          /\ pm_positions[s].stop_loss > pm_positions[s].initial_stop
          /\ pm_positions[s].current_price < pm_positions[s].highest_price
    /\ total_positions_closed >= 1

\* C9: after every price update at which the profit is at least 1R and the
\* trailing level is strictly better than the working stop, the working stop
\* is the trailing level; so no position is ever left with a profit of at
\* least 1R and a trailing level strictly better than its stop.
C9_StopAtTrailingLevel ==
    \A s \in DOMAIN pm_positions :
       ~(/\ Profit(pm_positions[s]) >= InitialR(pm_positions[s])
         /\ StrictlyBetter(pm_positions[s], TrailingLevel(pm_positions[s]),
                           pm_positions[s].stop_loss))

\* C10: a price update changes stop_loss or trailing_stop only if the profit
\* at that update is at least R = |entry - initial stop|.
C10_ChangeOnlyAtR ==
    [][\A s \in Surviving :
          (\/ pm_positions'[s].stop_loss # pm_positions[s].stop_loss
           \/ pm_positions'[s].trailing_stop # pm_positions[s].trailing_stop)
             => Profit(pm_positions'[s]) >= InitialR(pm_positions'[s])]_vars
\* A position whose stop has moved so far that the distance from entry to the
\* working stop is no longer R, at a price below 1R of profit.
C10_Witness ==
    \E s \in DOMAIN pm_positions :
       /\ pm_positions[s].trailing_stop # NoPrice
       /\ pm_positions[s].stop_loss # pm_positions[s].initial_stop
       /\ Abs(pm_positions[s].entry_price - pm_positions[s].stop_loss)
             < InitialR(pm_positions[s])
       /\ Profit(pm_positions[s]) > 0
       /\ Profit(pm_positions[s]) < InitialR(pm_positions[s])


\* C11: when stop_institutional returns, the mode is not Institutional and
\* institutional_running is false; when stop_sentinel returns, the mode is not
\* Sentinel and sentinel_running is false; and a stop called right after the
\* same stop changes nothing.
C11_StopReturnsToIdle ==
    /\ coord_hist.op = "stop_institutional"
          => (active_trading_mode # "INSTITUTIONAL" /\ ~institutional_running)
    /\ coord_hist.op = "stop_sentinel"
          => (active_trading_mode # "SENTINEL" /\ ~sentinel_running)
    /\ (coord_hist.op \in {"stop_sentinel", "stop_institutional"}
           /\ coord_hist.repeated) => ~coord_hist.changed


\* C12: once stop_institutional has returned and start_institutional has not
\* been called since, the institutional loop thread begins no further trading
\* cycle.
C12_NoCycleAfterStop ==
    ~(/\ last_cycle.kind = "institutional_cycle"
      /\ last_cycle.inst_stopped
      /\ ~institutional_running)

\* C13: never do both loops trade: no Sentinel iteration submits an order
\* while the mode is Institutional, and no institutional cycle runs while the
\* mode is Sentinel.
C13_OneLoopTrades ==
    /\ ~(last_cycle.kind = "sentinel_order" /\ last_cycle.mode = "INSTITUTIONAL")
    /\ ~(last_cycle.kind = "institutional_cycle" /\ last_cycle.mode = "SENTINEL")


\* C14: when start_sentinel returns in Sentinel mode and the call before it
\* was stop_sentinel, sentinel_running is true and exactly one Sentinel loop
\* thread is executing iterations.
C14_RestartOneLoop ==
    (coord_hist.restart /\ active_trading_mode = "SENTINEL")
       => /\ sentinel_running
          /\ Cardinality({t \in SentinelThreads :
                 sentinel_threads[t] \in {"alive", "iterating"}}) = 1


\* C15: when shutdown() returns, the monitor is stopped and the position map
\* is empty.
C15_ShutdownLeavesNothing ==
    [][(shut_pc # "done" /\ shut_pc' = "done")
          => (~monitor_running' /\ pm_positions' = << >>)]_vars


\* C16: every open position is registered in the Unified Position Manager's
\* map: the risk manager of the institutional loop holds no position that the
\* Unified Position Manager's map lacks.
C16_SingleRegistry == DOMAIN rm_positions \subseteq DOMAIN pm_positions


C18_OnePerGroup ==
    \A s1, s2 \in DOMAIN pm_positions :
       (s1 # s2 /\ GetCorrelationGroup(s1) # "NONE")
          => GetCorrelationGroup(s1) # GetCorrelationGroup(s2)

\* C19: every Sentinel iteration that reached sizing has written a market_log
\* row carrying the order ID or the reason the trade was not placed.
C19_EveryAttemptLogged ==
    sentinel_audit.outcome \notin {"none", "gated"}
       => sentinel_audit.row # "none"


\* C20: whatever the interleaving of the callers of get_trading_decision,
\* the requests sent to the advisor within one UTC day never exceed
\* MAX_DAILY_CALLS.
C20_DailyCap == brain_sent <= MAX_DAILY_CALLS


\* C21: while the cooldown that follows a quota error of the advisor is
\* running, no request is sent to the advisor.
C21_NoSendInCooldown ==
    [][brain_sent' = brain_sent + 1 => ~quota_exceeded]_vars


\* C22: no order is submitted to the exchange while the position-manager lock
\* is held: a close order goes out only after the lock has been released.
C22_NoOrderUnderLock ==
    pm_last_close.symbol # "none" => ~pm_last_close.order_under_lock

\* An order was submitted to the exchange in the last Sentinel iteration.
CycleSubmitted ==
    sentinel_audit.outcome \in {"executed", "order_failed"}

\* C23: in a Sentinel cycle whose decision passed the confidence gate, when
\* the classifier is trained and predicts UP against SELL or DOWN against BUY,
\* no order is submitted in that cycle.
C23_DisagreementBlocks ==
    LET g == sentinel_audit.gate
    IN  (/\ sentinel_audit.outcome # "none"
         /\ GateDecision(g) \in {"BUY", "SELL"}
         /\ GateConfidence(g) >= 90 - g.risk_tolerance
         /\ \/ g.ml_dir = "UP" /\ GateDecision(g) = "SELL"
            \/ g.ml_dir = "DOWN" /\ GateDecision(g) = "BUY")
        => ~CycleSubmitted

\* C29: the Sentinel loop submits an order in a cycle only if the decision is
\* BUY or SELL, its confidence is at least 90 - risk_tolerance, and it is
\* neither a BUY with RSI above 70 nor a SELL with RSI below 30.
C29_GatedSubmission ==
    LET g == sentinel_audit.gate
    IN  CycleSubmitted
        => /\ GateDecision(g) \in {"BUY", "SELL"}
           /\ GateConfidence(g) >= 90 - g.risk_tolerance
           /\ ~(GateDecision(g) = "BUY" /\ g.rsi > 70)
           /\ ~(GateDecision(g) = "SELL" /\ g.rsi < 30)

\* An iteration on the advisor's decision alone has placed an order that the
\* exchange accepted.
C29_Witness ==
    /\ sentinel_audit.outcome = "executed"
    /\ sentinel_audit.gate.strategy = "none"
    /\ sentinel_audit.gate.ai_confidence = 75

\* C24: the Sentinel path never submits an opening order for a symbol while
\* the position manager holds a position in that symbol, however the start
\* and stop calls of Sentinel interleave.
C24_NoStacking ==
    [][\A t \in SentinelThreads :
          (/\ sentinel_threads[t] = "checked"
           /\ sentinel_threads'[t] = "alive"
           /\ sentinel_audit'.outcome \in {"executed", "order_failed"})
          => sentinel_pending[t].symbol \notin DOMAIN pm_positions]_vars

C27_PeakIsMax ==
    rm_peak_equity >= rm_current_equity

\* C28: whenever a cycle of the orchestrator evaluates the daily-loss limit
\* (in get_portfolio_risk, when it selects an opportunity, sizes it or
\* registers it), a breach it finds is measured against a
\* daily_starting_equity snapshotted on the current day: a loss carried from
\* an earlier day blocks nothing.
C28_SnapshotBeforeKillSwitch ==
    rm_last_op.op \in {"portfolio", "select", "size", "open"}
       => ~rm_last_op.stale_block

\* On a later day a cycle has let an opportunity through although the equity
\* is more than 3% below the first day's starting equity.
C28_Witness ==
    /\ today >= 1
    /\ rm_last_reset_date = today
    /\ rm_last_op.op = "select"
    /\ rm_last_op.ok
    /\ rm_current_equity * 100 < (100 - RM_MAX_DAILY_LOSS_PCT) * RM_INITIAL_EQUITY

\* C30: a call of execute_market_order that has returned sent the order to
\* the exchange at least once and at most 3 times, sent no order after one
\* the exchange had accepted, and returned success = true exactly when the
\* exchange accepted one of them with the success code.
C30_SubmitOnceToThrice ==
    engine.pc = "done"
       => /\ engine.submitted >= 1
          /\ engine.submitted <= MAX_RETRIES
          /\ ~engine.resubmitted
          /\ (engine.success <=> engine.accepted)

\* C31: the asset select_best_opportunity returns, the one the orchestrator
\* goes on to open a position on, never carries a signal whose kind the
\* current regime disallows.
C31_NoDisallowedOpportunity ==
    scan.returned # NoAsset => scan.returned.signal_allowed

\* C32: close_position of the position manager deletes a position from the
\* map only when the exchange accepted the close order or its position
\* listing was retrieved and does not hold the symbol; after a failed
\* listing call or a rejected close order the position stays in the map.
C32_RemovedOnlyWhenClosed ==
    (pm_last_close.symbol # "none" /\ pm_last_close.removed)
        => pm_last_close.exchange \in {"accepted", "absent"}

\* C33: at most one run_institutional thread is alive (started and not yet
\* ended) at any time, whatever the interleaving of start_institutional,
\* stop_institutional and the workers' own steps.
C33_OneInstitutionalThread ==
    Cardinality({w \in Workers :
        inst_workers[w] \in {"spawned", "running", "run_continuous"}}) <= 1

\* C34: the risk manager's trailing stop activates only after a profit of
\* 1R: an update_position at a price strictly between entry and entry + R
\* (Long; between entry - R and entry for Short), R being the distance from
\* entry to the stop the call found, leaves stop_loss as it was.
C34_NoTrailBelowOneR ==
    (rm_last_op.op = "update" /\ rm_last_op.symbol \in DOMAIN rm_positions)
       => LET pos == rm_positions[rm_last_op.symbol]
              R == Abs(pos.entry_price - rm_last_op.stop_before)
              profit == IF pos.direction = "LONG"
                        THEN rm_last_op.price - pos.entry_price
                        ELSE pos.entry_price - rm_last_op.price
          IN  (0 < profit /\ profit < R)
                 => pos.stop_loss = rm_last_op.stop_before

\* C35: in a Sentinel iteration that read the strategies table, when the
\* logic of at least one active strategy holds for the iteration's market
\* state (its action is BUY or SELL, as every row's is), the iteration's
\* decision is the action of the first such strategy in table order, its
\* confidence is 85, and the advisor is not called.
C35_FirstRuleDecides ==
    (rule_cycle.evaluated /\ rule_cycle.db_ok)
       => LET table == rule_cycle.table
              hit == {i \in DOMAIN table :
                         evaluate_logic(table[i].logic, rule_cycle.market)}
          IN  hit # {}
                 => LET first == CHOOSE i \in hit : \A j \in hit : i <= j
                    IN  /\ table[first].action \in {"BUY", "SELL"}
                        /\ rule_cycle.decision = table[first].action
                        /\ rule_cycle.confidence = 85
                        /\ ~rule_cycle.advisor_called

\* An iteration with two triggered strategies of different actions: the SELL
\* row first, the BUY row second.
C35_Witness ==
    /\ rule_cycle.evaluated
    /\ rule_cycle.db_ok
    /\ Len(rule_cycle.table) = 2
    /\ rule_cycle.table[1].logic = "price < ema_20 and trend == 'BEARISH'"
    /\ rule_cycle.table[2].logic = "rsi < 30"
    /\ rule_cycle.market.rsi = 25
    /\ rule_cycle.market.trend = "BEARISH"
    /\ rule_cycle.market.ema_20 = 101
    /\ rule_cycle.decision = "SELL"

\* C36: a call of calculate_position_size returns; when it returns
\* can_trade = true no kill switch is active, the size is above 0, the
\* margin is within the available margin and used margin plus the margin
\* is at most 40% of the current equity; in every other case it returns
\* size 0, margin 0 and can_trade = false.
C36_SizingContract ==
    sizing.called
       => LET r == sizing.result
          IN  /\ r.raised = "none"
              /\ r.can_trade
                    => /\ ~sizing.kill_switch
                       /\ r.size > 0
                       /\ r.margin <= sizing.equity - sizing.used_margin
                       /\ (sizing.used_margin + r.margin) * 100
                             <= RM_MAX_EXPOSURE_PCT * sizing.equity
              /\ ~r.can_trade => (r.size = 0 /\ r.margin = 0)
\* C38: a validate_trade call made while current equity is more than 3%
\* below the daily starting equity in force (the one reset_daily_tracking
\* leaves), with the symbol, size and price checks passing, fails
\* DAILY_LOSS_LIMIT as CRITICAL, rejects the trade, adds one to total_checks
\* and to total_rejections, and adds exactly one to
\* rejection_reasons["DAILY_LOSS_LIMIT"].
C38_DailyLossRejection ==
    [][(/\ sl_total_checks' = sl_total_checks + 1
        /\ (sl_current_equity - sl_daily_starting_equity') * 100
              < (0 - 3) * sl_daily_starting_equity'
        /\ sl_last_check'.failures
              \cap {"SYMBOL_VALIDITY", "MINIMUM_ORDER_SIZE",
                    "PRICE_REASONABLENESS"} = {})
       => (/\ "DAILY_LOSS_LIMIT" \in sl_last_check'.failures
           /\ ~sl_last_check'.can_execute
           /\ sl_total_rejections' = sl_total_rejections + 1
           /\ RejectionCount(sl_rejection_reasons', "DAILY_LOSS_LIMIT")
                 = RejectionCount(sl_rejection_reasons, "DAILY_LOSS_LIMIT") + 1
           /\ \A n \in SL_CHECKS \ sl_last_check'.failures :
                 RejectionCount(sl_rejection_reasons', n)
                    = RejectionCount(sl_rejection_reasons, n))]_vars

\* Equity 9,690 against a daily start of 10,000: the second call in a row is
\* rejected for the daily loss alone.
C38_Witness ==
    /\ sl_last_check.valid
    /\ sl_current_equity = 969000
    /\ sl_daily_starting_equity = SL_INITIAL_EQUITY
    /\ sl_last_check.failures = {"DAILY_LOSS_LIMIT"}
    /\ sl_total_checks = 2
    /\ sl_total_rejections = 2
    /\ RejectionCount(sl_rejection_reasons, "DAILY_LOSS_LIMIT") = 2
\* C39, as stated: the fallback decision is BUY for a BULLISH trend with
\* 30 < RSI < 70, SELL for a BEARISH trend with 30 < RSI < 70, otherwise SELL
\* with confidence 65 for RSI > 75 and BUY with confidence 65 for RSI < 25,
\* and WAIT with confidence 30 for every other input.
C39_FallbackTable ==
    fallback.called =>
       LET rsi == fallback.market_data.rsi
           trend == fallback.market_data.trend
           r == fallback.result
           mid == RsiAbove(rsi, 30) /\ RsiBelow(rsi, 70)
       IN  IF trend = "BULLISH" /\ mid THEN r.decision = "BUY"
           ELSE IF trend = "BEARISH" /\ mid THEN r.decision = "SELL"
           ELSE IF RsiAbove(rsi, 75)
           THEN r.decision = "SELL" /\ r.confidence = 65
           ELSE IF RsiBelow(rsi, 25)
           THEN r.decision = "BUY" /\ r.confidence = 65
           ELSE r.decision = "WAIT" /\ r.confidence = 30

\* C39, amended: with a BULLISH trend and 30 < RSI < 70 the decision is BUY
\* when RSI < 50 (confidence 100 - RSI truncated, at most 75) or when there is
\* a volume spike (confidence 70), and WAIT with confidence 40 otherwise; with
\* a BEARISH trend and 30 < RSI < 70 it is SELL when RSI > 50 (confidence RSI
\* truncated, at most 75) or when there is a volume spike (confidence 70), and
\* WAIT with confidence 40 otherwise; otherwise RSI > 75 gives SELL with
\* confidence 65, RSI < 25 gives BUY with confidence 65, and every other input
\* gives WAIT with confidence 30.
C39_FallbackTableWithVolume ==
    fallback.called =>
       LET rsi == fallback.market_data.rsi
           trend == fallback.market_data.trend
           spike == fallback.market_data.volume_spike
           r == fallback.result
           mid == RsiAbove(rsi, 30) /\ RsiBelow(rsi, 70)
       IN  IF trend = "BULLISH" /\ mid
           THEN IF RsiBelow(rsi, 50)
                THEN /\ r.decision = "BUY"
                     /\ r.confidence = Min2(75, (10000 - rsi.value) \div 100)
                ELSE IF spike THEN r.decision = "BUY" /\ r.confidence = 70
                ELSE r.decision = "WAIT" /\ r.confidence = 40
           ELSE IF trend = "BEARISH" /\ mid
           THEN IF RsiAbove(rsi, 50)
                THEN /\ r.decision = "SELL"
                     /\ r.confidence = Min2(75, rsi.value \div 100)
                ELSE IF spike THEN r.decision = "SELL" /\ r.confidence = 70
                ELSE r.decision = "WAIT" /\ r.confidence = 40
           ELSE IF RsiAbove(rsi, 75)
           THEN r.decision = "SELL" /\ r.confidence = 65
           ELSE IF RsiBelow(rsi, 25)
           THEN r.decision = "BUY" /\ r.confidence = 65
           ELSE r.decision = "WAIT" /\ r.confidence = 30

\* A BULLISH trend with RSI 60 and no volume spike: the decision is WAIT with
\* confidence 40.
C39_Witness ==
    /\ fallback.called
    /\ fallback.market_data.trend = "BULLISH"
    /\ fallback.market_data.rsi = [nan |-> FALSE, value |-> 6000]
    /\ ~fallback.market_data.volume_spike
    /\ fallback.result = [decision |-> "WAIT", confidence |-> 40]

====
